---------------------------- MODULE Spec2Model ----------------------------
(***************************************************************************)
(* GuardianBridge: the stream validator (proxy/stream_checker.py), the     *)
(* streaming forward (proxy/upstream.py), the keyword filter               *)
(* (moderation/basic.py), the bag-of-words classifier artifacts            *)
(* (moderation/smart/bow.py) and the training scheduler                    *)
(* (moderation/smart/scheduler.py).                                        *)
(*                                                                         *)
(* Each subsystem has its own specification (SpecStream, SpecKeyword,      *)
(* SpecBasic, SpecPredict, SpecTrain, SpecSched) over its own variables;   *)
(* the variables of the other subsystems stay at their initial values.     *)
(***************************************************************************)
EXTENDS Integers, Sequences, FiniteSets, TLC

VARIABLES
    \* ---- stream validator and streaming forward
    wire,          \* bytes the upstream has written and the proxy has not read yet
    meta,          \* per data frame on the wire, what the upstream put in it
    upstream,      \* "idle" | "open" | "closed": the upstream response
    checker,       \* the StreamChecker object
    called,        \* check_chunk has been called
    lastRet,       \* what the latest check_chunk call returned
    parsedTxt,     \* text of the frames that lay whole in a decodable chunk (saturating)
    parsedTool,    \* such a frame started a tool call
    delivTxt,      \* text of the frames whose last byte has been delivered (saturating)
    delivTool,     \* such a frame started a tool call
    parsedFrames,  \* some data frame lay whole in a decodable chunk
    onlyKeepAlive, \* the upstream has written keep-alive lines only
    client,        \* what the client of forward_request has received
    callLog,       \* where one is kept, a log of the latest check_chunk call
    \* ---- keyword filter (basic moderation)
    kwFile,        \* the keywords file on disk: exists, mtime, lines
    kwAside,       \* the keywords file while it is moved aside, or NoFile
    kwClock,       \* the file system's clock
    _filters,      \* the filter cache: path and KeywordFilter, in insertion order
    kwCall,        \* the latest basic_moderation call: text, cfg and result
    kwFresh,       \* that call matched against the patterns of the file as it was
    \* ---- bag-of-words classifier: prediction, training, scheduler
    bowCall,       \* the latest bow_predict call: probability, thresholds, result
    store,         \* samples the profile's store holds
    bow_training,  \* profile.config.bow_training
    vecFile,       \* the vectorizer file: exists, mtime, the training run that wrote it
    modelFile,     \* the model file, likewise
    trainer,       \* the train_bow_model call under way: position and locals
    reader,        \* the _load_model_with_cache call under way: position and locals
    _model_cache,  \* the model cache: the profile's entry, if it has one
    bowClock,      \* time.time(), in seconds
    sched,         \* the scheduler's latest look at the profile
    \* ---- the application's event loop: scheduler task, requests, shutdown
    appState,      \* "init" | "running" | "shutting" | "stopped" | "exited"
    _scheduler_started,  \* app.py's flag
    _memory_guard_task,  \* "none" | "running" | "cancelled"
    guardLoops,    \* memory_guard_loop tasks created and not cancelled
    tasksCreated,  \* scheduler_loop tasks created so far
    loopHolder,    \* the task the event loop's thread is running, or "free"
    schedTask,     \* the scheduler_loop task: position, profiles left in the tick
    training,      \* train_bow_model invocations in progress: profile -> batches left
    tickLog,       \* what the current tick did with each profile it had a look at
    pendingReq,    \* requests that have arrived and are not handled yet
    afterShutdown, \* a tick has begun / a training has started after shutdown_event
    \* ---- upstream clients and the non-streaming forward
    _client_pool,  \* base_url -> HTTP client
    clientsMade,   \* every HTTP client created so far, with its base URL
    upstreamClients,  \* the UpstreamClient objects constructed so far
    fwd,           \* the latest non-streaming forward_request call and its response
    errorResp,     \* the latest error response the gateway produced
    \* ---- the sample store (SQLite table samples)
    samples,       \* the committed rows of the table
    sqlite_sequence,  \* the largest id the table has ever handed out
    writer,        \* the connection that holds the database's write lock, or None
    saver,         \* per caller, its save_sample call: position, arguments, row
    tool,          \* the deletion tool: position and the ids it has found
    arrivals,      \* the INSERTs executed so far, in order
    dbNow,         \* CURRENT_TIMESTAMP
    max_connections,  \* ConnectionPool.max_connections
    _pool,         \* ConnectionPool._pool: the idle connections
    _lock,         \* ConnectionPool._lock: the user that holds it, or "free"
    connUser,      \* per user of get_connection: position, connection, outcome
    connections,   \* every connection made so far: open or closed
    \* ---- request translation
    txRoute,       \* the dialect a request comes in and the dialect it is rendered in
    txStep,        \* conversions applied so far
    openai_in,     \* the request body as it came, when it came as OpenAI Chat
    claude_in,     \* likewise for Claude Messages
    code_in,       \* likewise for Claude Code
    internal_in,   \* the InternalChatRequest a translation starts from, if it starts there
    internal,      \* the InternalChatRequest a from_ function returned
    openai_out,    \* the body to_openai_chat returned
    claude_out,    \* the body to_claude_chat returned
    code_out,      \* the body to_claude_code returned
    \* ---- dialect detection
    detReq,        \* the request looked at: path, header names, body
    detected,      \* the dialect detected for it, None when no adapter accepts
    \* ---- the registries under many keys and many callers
    filterCall,    \* the latest get_filter call: path, hit or miss, evictions so far
    profileCache,  \* bow.py's _model_cache over every profile: profile -> entry
    profileFiles,  \* per profile, the mtimes of its model and vectorizer files
    worker,        \* per caller, the registry call it is in: position and locals
    built,         \* the models and filters built so far: registry, key, object
    _filter_lock,  \* basic.py's lock: the caller that holds it, or "free"
    _tracked_objects, \* MemoryGuard's registry: the containers it holds a weak reference to
    guardLog       \* the latest check_all_tracked: what it examined

streamVars == <<wire, meta, upstream, checker, called, lastRet, parsedTxt,
                parsedTool, parsedFrames, delivTxt, delivTool, onlyKeepAlive,
                client, callLog>>

kwVars == <<kwFile, kwAside, kwClock, _filters, kwCall, kwFresh>>

bowVars == <<bowCall, store, bow_training, vecFile, modelFile, trainer, reader,
             _model_cache, bowClock, sched>>

loopVars == <<appState, _scheduler_started, _memory_guard_task, guardLoops, tasksCreated,
              loopHolder, schedTask, training, tickLog, pendingReq, afterShutdown>>

upVars == <<_client_pool, clientsMade, upstreamClients, fwd, errorResp>>

tableVars == <<samples, sqlite_sequence, writer, saver, tool, arrivals, dbNow>>
connVars == <<max_connections, _pool, _lock, connUser, connections>>
storeVars == <<tableVars, connVars>>

\* the subsystems behind the moderation and proxy paths
txVars == <<txRoute, txStep, openai_in, claude_in, code_in, internal_in, internal,
            openai_out, claude_out, code_out>>

detVars == <<detReq, detected>>

guardVars == <<_tracked_objects, guardLog>>
regVars == <<filterCall, profileCache, profileFiles, worker, built, _filter_lock, guardVars>>

dataVars == <<storeVars, txVars, detVars, regVars>>

vars == <<streamVars, kwVars, bowVars, loopVars, upVars, dataVars>>

\* what the actions of one subsystem leave alone
notStream == <<kwVars, bowVars, loopVars, upVars, dataVars>>
notKw == <<streamVars, bowVars, loopVars, upVars, dataVars>>
notBow == <<streamVars, kwVars, loopVars, upVars, dataVars>>
notLoop == <<streamVars, kwVars, bowVars, upVars, dataVars>>
notUp == <<streamVars, kwVars, bowVars, loopVars, dataVars>>
proxyVars == <<streamVars, kwVars, bowVars, loopVars, upVars>>
notStore == <<proxyVars, txVars, detVars, regVars>>
notTx == <<proxyVars, storeVars, detVars, regVars>>
notDet == <<proxyVars, storeVars, txVars, regVars>>
notReg == <<streamVars, loopVars, storeVars, txVars, detVars>>

----------------------------------------------------------------------------
(* Bounds of the model *)

\* bytes (tokens) the wire holds at most
MaxWire == 8
\* lines of a keywords file at most
KwMaxLines == 2
\* characters of a moderated text at most
KwMaxText == 2
\* how far the file system's clock runs
KwMaxClock == 3
\* probabilities and thresholds lie on the grid 0..PGrid
PGrid == 4
\* samples a store holds at most
MaxSamples == 3
\* training runs of one behaviour at most
MaxRuns == 2
\* seconds between two looks at the clock, and how far the clock runs
SchedStep == 30
MaxNow == 120
\* batches of one training run at most
MaxBatches == 2
\* requests waiting to be handled at most
MaxPending == 1
\* startup events counted
MaxStartups == 2
\* HTTP clients created in one behaviour at most
MaxClients == 5
\* bytes get_size counts for one entry of the client pool, its key included
EntryBytes == 536870912
\* save_sample calls of one behaviour at most
MaxSaves == 3
\* how far the database's clock runs
MaxDbNow == 2
\* max_connections of a pool at most, and connections ever made
MaxPoolSize == 2
MaxConnsMade == 4
\* messages of a translated request at most
MaxMessages == 2
\* bytes get_size counts for one entry of the filter cache at most: a path
\* of PATH_MAX characters and the KeywordFilter object
FilterEntryBytes == 4201
\* keywords files beyond the cache's capacity, and evictions of one behaviour
ExtraPaths == 2
MaxEvictions == 3
\* profiles that have a trained model, and rewrites of a model's files
MaxProfiles == 101
MaxTouches == 2

(* Program constants *)

\* StreamChecker.char_threshold
char_threshold == 2
\* basic.py MAX_FILTERS
MAX_FILTERS == 100
\* MemoryGuard.SIZE_THRESHOLD: 1 GiB
SIZE_THRESHOLD == 1073741824

Min(a, b) == IF a < b THEN a ELSE b
Max(a, b) == IF a > b THEN a ELSE b

\* the counters of text saturate just above the threshold
Sat(n) == Min(n, char_threshold + 1)

----------------------------------------------------------------------------
(* The bytes of an SSE stream.  A token stands for a run of bytes:          *)
(*   "P"   the six bytes `data: `          "NL"  a line feed               *)
(*   "CR"  a carriage return               "EV"  an `event: x` field       *)
(*   "CM"  a `: comment` field             "DN"  the literal `[DONE]`      *)
(*   "{oc" `{"choices":[{"delta":{"content":"`                             *)
(*   ";"   `"}},{"delta":{"content":"`  (the next element of choices)      *)
(*   "tc"  `","tool_calls":[{"index":0}],"x":"`                            *)
(*   "{cbd_text"  `{"type":"content_block_delta","delta":{"type":          *)
(*                 "text_delta","text":"`                                  *)
(*   "{cbd_json"  the same with input_json_delta and partial_json          *)
(*   "{ms"   `{"type":"message_start","message":{"content":[` ...          *)
(*   "{cbs"  `{"type":"content_block_start","content_block":` ...          *)
(*   "tu" / "tx"  a block `{"type":"tool_use"}` / `{"type":"text"}`        *)
(*   "{ping" `{"type":"ping"`            "}"   the bytes closing the JSON  *)
(*   "a"   one ASCII character of text                                     *)
(*   "J5" `5`    "Jnull" `null`    "Jstr" `"x"`    "Jlist" `[]`            *)
(*   "{dnull" `{"choices":[{"delta":null}]}`                               *)
(*   "{cnum"  `{"choices":[{"delta":{"content":5}}]}`                      *)
(*   "{ch5"   `{"choices":[5]}`                                            *)
(*   "m1","m2"  the two bytes of one two-byte UTF-8 character              *)

OpenTokens == {"{oc", "{cbd_text", "{cbd_json", "{ms", "{cbs", "{ping"}
Whitespace == {"CR"}

\* The lines an upstream writes, each ended by its line feed.
KeepAliveLines ==
    { <<"NL">>, <<"CM", "NL">>, <<"EV", "NL">>,
      <<"P", "DN", "CR", "NL">>,
      <<"P", "{oc", "}", "NL">>,
      <<"P", "{cbd_text", "}", "NL">>,
      <<"P", "{cbd_json", "a", "}", "NL">>,
      <<"P", "{ping", "}", "NL">>,
      <<"P", "{ms", "tx", "}", "NL">>,
      <<"P", "{cbs", "tx", "}", "NL">> }

TextLines ==
    { <<"P", "{oc", "a", "}", "NL">>,
      <<"P", "{oc", "a", "a", "a", "}", "CR", "NL">>,
      <<"P", "{oc", "m1", "m2", "}", "NL">>,
      <<"P", "{oc", "a", ";", "a", "a", "}", "NL">>,
      <<"P", "{cbd_text", "a", "m1", "m2", "}", "NL">>,
      <<"P", "{cbd_text", "a", "a", "a", "}", "NL">> }

ToolLines ==
    { <<"P", "{oc", "tc", "}", "NL">>,
      <<"P", "{ms", "tx", "tu", "}", "NL">>,
      <<"P", "{cbs", "tu", "}", "NL">> }

Lines == KeepAliveLines \cup TextLines \cup ToolLines

\* What the upstream put in a line: its characters of text and whether it
\* starts a tool call (written down when the line is written, not parsed).
RECURSIVE CountChars(_)
CountChars(s) ==
    IF s = <<>> THEN 0
    ELSE (IF Head(s) \in {"a", "m1"} THEN 1 ELSE 0) + CountChars(Tail(s))

IsFrame(line) == Len(line) >= 2 /\ line[2] \in OpenTokens

FrameMeta(line) ==
    [txt  |-> IF line[2] = "{cbd_json" THEN 0 ELSE CountChars(line),
     tool |-> line \in ToolLines]

----------------------------------------------------------------------------
(* bytes.decode("utf-8"): the characters of a chunk, or the error *)

UnicodeDecodeError == <<"UnicodeDecodeError">>

RECURSIVE decode(_)
decode(chunk) ==
    IF chunk = <<>> THEN <<>>
    ELSE IF Head(chunk) = "m2" THEN UnicodeDecodeError
    ELSE IF Head(chunk) = "m1" THEN
        IF Len(chunk) >= 2 /\ chunk[2] = "m2"
        THEN LET rest == decode(Tail(Tail(chunk)))
             IN  IF rest = UnicodeDecodeError THEN UnicodeDecodeError
                 ELSE <<"e'">> \o rest
        ELSE UnicodeDecodeError
    ELSE LET rest == decode(Tail(chunk))
         IN  IF rest = UnicodeDecodeError THEN UnicodeDecodeError
             ELSE <<Head(chunk)>> \o rest

(* str.split('\n'): the pieces between line feeds, the last one included *)
RECURSIVE split_nl(_, _)
split_nl(text, cur) ==
    IF text = <<>> THEN <<cur>>
    ELSE IF Head(text) = "NL" THEN <<cur>> \o split_nl(Tail(text), <<>>)
    ELSE split_nl(Tail(text), Append(cur, Head(text)))

(* str.strip() *)
RECURSIVE lstrip(_)
lstrip(s) ==
    IF s # <<>> /\ Head(s) \in Whitespace THEN lstrip(Tail(s)) ELSE s

RECURSIVE rstrip(_)
rstrip(s) ==
    IF s # <<>> /\ s[Len(s)] \in Whitespace
    THEN rstrip(SubSeq(s, 1, Len(s) - 1)) ELSE s

strip(s) == rstrip(lstrip(s))

----------------------------------------------------------------------------
(* json.loads of the text after `data: `: the object, or the error *)

JSONDecodeError == [error |-> "JSONDecodeError"]

NoData == [shape |-> "object", has_choices |-> FALSE, choices |-> <<>>, type |-> "",
           delta_type |-> "", delta_text |-> <<>>,
           message_content |-> <<>>, content_block_type |-> ""]

\* the elements of choices: the characters up to each ";"
RECURSIVE loads_choices(_, _)
loads_choices(body, cur) ==
    IF body = <<>> THEN <<cur>>
    ELSE IF Head(body) = ";"
         THEN <<cur>> \o loads_choices(Tail(body), [content |-> <<>>, tool_calls |-> FALSE])
    ELSE IF Head(body) = "tc"
         THEN loads_choices(Tail(body), [cur EXCEPT !.tool_calls = TRUE])
    ELSE loads_choices(Tail(body), [cur EXCEPT !.content = Append(@, Head(body))])

RECURSIVE loads_blocks(_)
loads_blocks(body) ==
    IF body = <<>> THEN <<>>
    ELSE <<IF Head(body) = "tu" THEN "tool_use" ELSE "text">> \o loads_blocks(Tail(body))

BodyTokens(open) ==
    CASE open = "{oc"       -> {"a", "e'", ";", "tc"}
      [] open = "{cbd_text" -> {"a", "e'"}
      [] open = "{cbd_json" -> {"a", "e'"}
      [] open = "{ms"       -> {"tu", "tx"}
      [] open = "{cbs"      -> {"tu", "tx"}
      [] OTHER              -> {}

\* valid JSON that is not an object of the shapes the checker expects
OddJson ==
    [J5 |-> "number", Jnull |-> "null", Jstr |-> "string", Jlist |-> "list"]
OddObjects ==
    [dnull |-> "null_delta", cnum |-> "number_content", ch5 |-> "number_choice"]
OddShape(token) ==
    CASE token = "J5" -> OddJson.J5
      [] token = "Jnull" -> OddJson.Jnull
      [] token = "Jstr" -> OddJson.Jstr
      [] token = "Jlist" -> OddJson.Jlist
      [] token = "{dnull" -> OddObjects.dnull
      [] token = "{cnum" -> OddObjects.cnum
      [] token = "{ch5" -> OddObjects.ch5
      [] OTHER -> "object"

json_loads(data_str) ==
    IF Len(data_str) = 1 /\ OddShape(data_str[1]) # "object"
    THEN [NoData EXCEPT !.shape = OddShape(data_str[1])]
    ELSE
    IF \/ Len(data_str) < 2
       \/ data_str[1] \notin OpenTokens
       \/ data_str[Len(data_str)] # "}"
    THEN JSONDecodeError
    ELSE
      LET open == data_str[1]
          body == SubSeq(data_str, 2, Len(data_str) - 1)
      IN  IF \E i \in 1..Len(body) : body[i] \notin BodyTokens(open)
          THEN JSONDecodeError
          ELSE CASE open = "{oc" ->
                      [NoData EXCEPT !.has_choices = TRUE,
                         !.choices = loads_choices(body, [content |-> <<>>, tool_calls |-> FALSE])]
                 [] open = "{cbd_text" ->
                      [NoData EXCEPT !.type = "content_block_delta",
                         !.delta_type = "text_delta", !.delta_text = body]
                 [] open = "{cbd_json" ->
                      [NoData EXCEPT !.type = "content_block_delta",
                         !.delta_type = "input_json_delta"]
                 [] open = "{ms" ->
                      [NoData EXCEPT !.type = "message_start",
                         !.message_content = loads_blocks(body)]
                 [] open = "{cbs" ->
                      [NoData EXCEPT !.type = "content_block_start",
                         !.content_block_type =
                             IF body = <<>> THEN "" ELSE loads_blocks(body)[1]]
                 [] OTHER -> [NoData EXCEPT !.type = "ping"]

----------------------------------------------------------------------------
(* StreamChecker *)

StreamChecker_init == [accumulated_content |-> <<>>, has_tool_call |-> FALSE]

\* the OpenAI branch of _parse_data: for choice in data["choices"]
RECURSIVE parse_choices(_, _)
parse_choices(self, choices) ==
    IF choices = <<>> THEN self
    ELSE LET delta == Head(choices)
             s1 == IF delta.content # <<>>
                   THEN [self EXCEPT !.accumulated_content = @ \o delta.content]
                   ELSE self
             s2 == IF delta.tool_calls
                   THEN [s1 EXCEPT !.has_tool_call = TRUE]
                   ELSE s1
         IN  parse_choices(s2, Tail(choices))

\* the Claude branch of _parse_data
C3MutParseType(self, data) ==
    IF data.type = "content_block_delta" THEN
        IF data.delta_type = "text_delta"
        THEN [self EXCEPT !.accumulated_content = @ \o data.delta_text]
        ELSE self
    ELSE IF data.type = "message_start" THEN
        IF \E i \in 1..Len(data.message_content) : data.message_content[i] = "tool_use"
        THEN [self EXCEPT !.has_tool_call = TRUE]
        ELSE self
    ELSE IF data.type = "content_block_start" THEN
        [self EXCEPT !.has_tool_call = TRUE]
    ELSE self

parse_type(self, data) ==
    IF data.type = "content_block_delta" THEN
        IF data.delta_type = "text_delta"
        THEN [self EXCEPT !.accumulated_content = @ \o data.delta_text]
        ELSE self
    ELSE IF data.type = "message_start" THEN
        IF \E i \in 1..Len(data.message_content) : data.message_content[i] = "tool_use"
        THEN [self EXCEPT !.has_tool_call = TRUE]
        ELSE self
    ELSE IF data.type = "content_block_start" THEN
        IF data.content_block_type = "tool_use"
        THEN [self EXCEPT !.has_tool_call = TRUE]
        ELSE self
    ELSE self

\* _parse_data raises: `"choices" in data` on a number or on null is a
\* TypeError, choice.get on a number and delta.get on None are
\* AttributeErrors, accumulated_content += 5 is a TypeError; a string and a
\* list hold no "choices" and no "type" and go through
parse_raises(data) ==
    data.shape \in {"number", "null", "number_choice", "null_delta", "number_content"}

_parse_data(self, data) ==
    LET s1 == IF data.has_choices THEN parse_choices(self, data.choices) ELSE self
    IN  IF data.type # "" THEN parse_type(s1, data) ELSE s1

\* has_tool_call or len(accumulated_content) > char_threshold
C1MutPassed(self) ==
    self.has_tool_call \/ Len(self.accumulated_content) >= char_threshold

passed(self) ==
    self.has_tool_call \/ Len(self.accumulated_content) > char_threshold

\* the loop over the lines of a chunk; the result is the object and the
\* value check_chunk returns
RECURSIVE check_lines(_, _)
check_lines(self, lines) ==
    IF lines = <<>> THEN [self |-> self, ret |-> FALSE, raised |-> FALSE]
    ELSE
      LET line == strip(Head(lines))
      IN  IF ~(Len(line) >= 1 /\ line[1] = "P")
          THEN check_lines(self, Tail(lines))
          ELSE
            LET data_str == Tail(line)
            IN  IF data_str = <<"DN">>
                THEN check_lines(self, Tail(lines))
                ELSE
                  LET data == json_loads(data_str)
                  IN  IF data = JSONDecodeError
                      THEN check_lines(self, Tail(lines))
                      ELSE IF parse_raises(data)
                      THEN [self |-> self, ret |-> FALSE, raised |-> TRUE]
                      ELSE
                        LET s1 == _parse_data(self, data)
                        IN  IF passed(s1)
                            THEN [self |-> s1, ret |-> TRUE, raised |-> FALSE]
                            ELSE check_lines(s1, Tail(lines))

C36MutCheckChunk(self, chunk) ==
    LET text == decode(chunk)
    IN  IF text = UnicodeDecodeError
        THEN [self |-> self, ret |-> FALSE, raised |-> FALSE]
        ELSE check_lines(self, split_nl(text, <<>>))

check_chunk(self, chunk) ==
    IF passed(self) THEN [self |-> self, ret |-> TRUE, raised |-> FALSE]
    ELSE
      LET text == decode(chunk)
      IN  IF text = UnicodeDecodeError
          THEN [self |-> self, ret |-> FALSE, raised |-> FALSE]
          ELSE check_lines(self, split_nl(text, <<>>))

----------------------------------------------------------------------------
(* What a chunk holds, by the upstream's own account of what it wrote *)

\* per "}" of the chunk, in order: does the frame's `data: ` lie in the chunk too
RECURSIVE FramesIn(_, _)
FramesIn(chunk, seenP) ==
    IF chunk = <<>> THEN <<>>
    ELSE IF Head(chunk) = "}" THEN <<seenP>> \o FramesIn(Tail(chunk), seenP)
    ELSE FramesIn(Tail(chunk), seenP \/ Head(chunk) = "P")

RECURSIVE SumTxt(_, _)
SumTxt(metas, keep) ==
    IF metas = <<>> \/ keep = <<>> THEN 0
    ELSE (IF Head(keep) THEN Head(metas).txt ELSE 0) + SumTxt(Tail(metas), Tail(keep))

RECURSIVE AnyTool(_, _)
AnyTool(metas, keep) ==
    IF metas = <<>> \/ keep = <<>> THEN FALSE
    ELSE (Head(keep) /\ Head(metas).tool) \/ AnyTool(Tail(metas), Tail(keep))

AllOf(n) == [i \in 1..n |-> TRUE]

----------------------------------------------------------------------------------------------------------------------------------------
(* The subsystems at rest: what each specification holds the others at *)

None == "None"
NoFile == [exists |-> FALSE, mtime |-> 0, lines |-> <<>>]
NoCall == [called |-> FALSE, text |-> <<>>, enabled |-> FALSE,
           passed |-> TRUE, reason |-> None]

KwIdle ==
    /\ kwFile = NoFile
    /\ kwAside = NoFile
    /\ kwClock = 1
    /\ _filters = <<>>
    /\ kwCall = NoCall
    /\ kwFresh = TRUE

NoPredict == [called |-> FALSE, proba |-> 0, low_t |-> 0, high_t |-> 0,
              violation |-> FALSE, reason |-> None]
NoArtifact == [exists |-> FALSE, mtime |-> 0, run |-> 0, whole |-> TRUE]
\* how often the sample at each place of ids went into a fit
NoFits == [k \in 1..MaxSamples |-> 0]
TrainerIdle == [pc |-> "idle", run |-> 0, held |-> 0, ids |-> 0, i |-> 0,
                over |-> FALSE, fits |-> NoFits]
ReaderIdle == [pc |-> "idle", model_mtime |-> 0, vectorizer_mtime |-> 0,
               vectorizer |-> 0, clf |-> 0]
NoLook == [called |-> FALSE, ret |-> FALSE, sample_count |-> 0, vectorizer |-> FALSE,
           model |-> FALSE, model_mtime |-> 0, now |-> 0]
CfgAtRest == [min_samples |-> 1, max_db_items |-> MaxSamples, max_samples |-> MaxSamples,
              batch_size |-> 1, retrain_interval_minutes |-> 1]

PredictIdle == bowCall = NoPredict

TrainIdle ==
    /\ store = 0
    /\ bow_training = CfgAtRest
    /\ vecFile = NoArtifact
    /\ modelFile = NoArtifact
    /\ trainer = TrainerIdle
    /\ reader = ReaderIdle
    /\ _model_cache = {}
    /\ bowClock = 0
    /\ sched = NoLook

BowIdle == PredictIdle /\ TrainIdle

SchedTaskNone == [pc |-> "none", listed |-> <<>>, queue |-> <<>>]
NoTraining == <<>>
NoForward == [called |-> FALSE, headers |-> {}, sent |-> {}, outcome |-> None,
              upstream_status |-> 0, src_format |-> None, target_format |-> None,
              transform |-> None, status |-> 0, code |-> None, body |-> None]
NoError == [produced |-> FALSE, status |-> 0, fields |-> {}, code |-> None]

LoopIdle ==
    /\ appState = "init"
    /\ _scheduler_started = FALSE
    /\ _memory_guard_task = "none"
    /\ guardLoops = 0
    /\ tasksCreated = 0
    /\ loopHolder = "free"
    /\ schedTask = SchedTaskNone
    /\ training = NoTraining
    /\ tickLog = <<>>
    /\ pendingReq = 0
    /\ afterShutdown = FALSE

UpIdle ==
    /\ _client_pool = <<>>
    /\ clientsMade = {}
    /\ upstreamClients = {}
    /\ fwd = NoForward
    /\ errorResp = NoError

AppIdle == LoopIdle /\ UpIdle

Callers == {"c1", "c2"}
SaverIdle == [pc |-> "idle", text |-> None, label |-> 0, category |-> None,
              id |-> 0, created_at |-> 0, raised |-> FALSE]
ToolIdle == [pc |-> "idle", ids |-> {}]

UserIdle == [pc |-> "idle", conn |-> 0, raised |-> FALSE, outcome |-> None]
ConnIdle ==
    /\ max_connections = 10
    /\ _pool = <<>>
    /\ _lock = "free"
    /\ connUser = [u \in Callers |-> UserIdle]
    /\ connections = <<>>
StoreIdle ==
    /\ samples = {}
    /\ sqlite_sequence = 0
    /\ writer = None
    /\ saver = [c \in Callers |-> SaverIdle]
    /\ tool = ToolIdle
    /\ arrivals = <<>>
    /\ dbNow = 1
    /\ ConnIdle

NoRoute == [from |-> None, to |-> None]
NoInternal == [raised |-> FALSE, messages |-> <<>>, model |-> None, stream |-> None,
               tools |-> <<>>, extra |-> [workingDirectory |-> None]]
NoOpenAI == [model |-> None, messages |-> <<>>, stream |-> None, tools |-> <<>>]
NoClaude == [model |-> None, stream |-> None,
             system |-> [kind |-> None, str |-> "", parts |-> <<>>],
             messages |-> <<>>, tools |-> <<>>]
NoCode == [prompt |-> None,
           options |-> [model |-> None, systemPrompt |-> None, mcpServers |-> <<>>,
                        workingDirectory |-> None]]

TxIdle ==
    /\ txRoute = NoRoute
    /\ txStep = 0
    /\ openai_in = NoOpenAI
    /\ claude_in = NoClaude
    /\ code_in = NoCode
    /\ internal_in = NoInternal
    /\ internal = NoInternal
    /\ openai_out = NoOpenAI
    /\ claude_out = NoClaude
    /\ code_out = NoCode

NoRequest == [path |-> None, headers |-> {},
              body |-> [gemini |-> FALSE, prompt |-> None, options |-> None,
                        anthropic_version |-> None, messages |-> <<>>, has_messages |-> FALSE]]

DetectIdle ==
    /\ detReq = NoRequest
    /\ detected = "pending"

NoFilterCall == [path |-> 0, hit |-> FALSE, seen |-> 0, evictions |-> 0]

WorkerIdle == [on |-> TRUE, fn |-> "none", pc |-> "idle", profile |-> 0,
               keywords_file |-> 0, base_url |-> <<>>, model_mtime |-> 0,
               vectorizer_mtime |-> 0, obj |-> 0, reused |-> FALSE, got |-> None]
WorkerOff == [WorkerIdle EXCEPT !.on = FALSE]
NoWorkers == [c \in Callers |-> WorkerOff]
NoGuardLog == [ran |-> FALSE, due |-> FALSE, examined |-> {}, cleaned |-> FALSE]
GuardIdle == _tracked_objects = {} /\ guardLog = NoGuardLog
RegIdle ==
    /\ filterCall = NoFilterCall
    /\ profileCache = <<>>
    /\ profileFiles = <<>>
    /\ worker = NoWorkers
    /\ built = {}
    /\ _filter_lock = "free"
    /\ GuardIdle

DataIdle == StoreIdle /\ TxIdle /\ DetectIdle /\ RegIdle

----------------------------------------------------------------------------
(* A StreamChecker fed with the chunks of an upstream response *)

NoLog == [kept |-> FALSE, late |-> "none", raised |-> FALSE]

StreamVarsInit ==
    /\ wire = <<>>
    /\ meta = <<>>
    /\ checker = StreamChecker_init
    /\ called = FALSE
    /\ lastRet = FALSE
    /\ parsedTxt = 0
    /\ parsedTool = FALSE
    /\ parsedFrames = FALSE
    /\ delivTxt = 0
    /\ delivTool = FALSE
    /\ onlyKeepAlive = TRUE
    /\ client = [status |-> 0, headers |-> FALSE, chunks |-> 0, ended |-> FALSE]
    /\ callLog = NoLog

\* the upstream writes one more line of its response
UpstreamWrites(line) ==
    /\ upstream = "open"
    /\ Len(wire) + Len(line) <= MaxWire
    /\ wire' = wire \o line
    /\ meta' = IF IsFrame(line) THEN Append(meta, FrameMeta(line)) ELSE meta
    /\ onlyKeepAlive' = (onlyKeepAlive /\ line \in KeepAliveLines)
    /\ UNCHANGED <<upstream, checker, called, lastRet, parsedTxt, parsedTool,
                   parsedFrames, delivTxt, delivTool, client, callLog>>
    /\ UNCHANGED notStream

\* the next n bytes arrive as one chunk and check_chunk is called on it
CheckChunk(n) ==
    /\ upstream = "open"
    /\ n \in 1..Len(wire)
    /\ LET chunk == SubSeq(wire, 1, n)
           r     == check_chunk(checker, chunk)
           whole == FramesIn(chunk, FALSE)
           ok    == decode(chunk) # UnicodeDecodeError
       IN  /\ wire' = SubSeq(wire, n + 1, Len(wire))
           /\ meta' = SubSeq(meta, Len(whole) + 1, Len(meta))
           /\ checker' = r.self
           /\ lastRet' = IF r.raised THEN lastRet ELSE r.ret
           /\ called' = TRUE
           /\ parsedTxt' = IF ok THEN Sat(parsedTxt + SumTxt(meta, whole)) ELSE parsedTxt
           /\ parsedTool' = (parsedTool \/ (ok /\ AnyTool(meta, whole)))
           /\ parsedFrames' = (parsedFrames \/ (ok /\ \E i \in 1..Len(whole) : whole[i]))
           /\ callLog' = IF callLog.kept
                          THEN [callLog EXCEPT !.late = IF ~(called /\ lastRet) THEN "none"
                                                        ELSE IF ok THEN "decoded"
                                                        ELSE "undecodable",
                                               !.raised = r.raised]
                          ELSE callLog
    /\ UNCHANGED <<upstream, delivTxt, delivTool, onlyKeepAlive, client>>
    /\ UNCHANGED notStream

StreamIdle == StreamVarsInit /\ upstream = "idle"

StreamInit == StreamVarsInit /\ upstream = "open" /\ KwIdle /\ BowIdle /\ AppIdle /\ DataIdle

StreamNext ==
    \/ \E line \in Lines : UpstreamWrites(line)
    \/ \E n \in 1..MaxWire : CheckChunk(n)

SpecStream == StreamInit /\ [][StreamNext]_vars

\* C1: whatever chunks a StreamChecker has been given, the value the latest
\* check_chunk call returned is True exactly when the frames parsed so far
\* (those that lay whole in a chunk that decoded) carry more than 2
\* characters of text in total or one of them started a tool call; with
\* exactly 2 characters and no tool call it is False.
C1_ReturnsTrueIffPassed ==
    called => (lastRet <=> (parsedTxt > char_threshold \/ parsedTool))

\* a call has just returned True on text alone, one character over the threshold
C1_Witness ==
    /\ called /\ lastRet /\ ~parsedTool
    /\ Len(checker.accumulated_content) = char_threshold + 1

\* C3: while the upstream has written keep-alive lines only, no check_chunk
\* call returns True and the checker does not pass.
C3_KeepAliveNeverCommits ==
    onlyKeepAlive => (~lastRet /\ ~passed(checker))

\* keep-alive data frames have been parsed, all the stream has been read and
\* the latest call returned False
C3_Witness ==
    /\ onlyKeepAlive /\ called /\ parsedFrames /\ wire = <<>> /\ ~lastRet

\* A checker whose calls are logged: was the call made after commitment,
\* and on a chunk that decodes
CommitLines ==
    { <<"P", "{ping", "}", "NL">>,
      <<"P", "{oc", "m1", "m2", "}", "NL">>,
      <<"P", "{oc", "a", "a", "a", "}", "CR", "NL">>,
      <<"P", "{cbd_text", "a", "m1", "m2", "}", "NL">>,
      <<"P", "{oc", "tc", "}", "NL">>,
      <<"P", "{cbs", "tu", "}", "NL">> }

CommitInit ==
    /\ wire = <<>>
    /\ meta = <<>>
    /\ checker = StreamChecker_init
    /\ called = FALSE
    /\ lastRet = FALSE
    /\ parsedTxt = 0
    /\ parsedTool = FALSE
    /\ parsedFrames = FALSE
    /\ delivTxt = 0
    /\ delivTool = FALSE
    /\ onlyKeepAlive = TRUE
    /\ client = [status |-> 0, headers |-> FALSE, chunks |-> 0, ended |-> FALSE]
    /\ callLog = [NoLog EXCEPT !.kept = TRUE]
    /\ upstream = "open"
    /\ KwIdle /\ BowIdle /\ AppIdle /\ DataIdle

CommitNext ==
    \/ \E line \in CommitLines : UpstreamWrites(line)
    \/ \E n \in 1..MaxWire : CheckChunk(n)

SpecCommit == CommitInit /\ [][CommitNext]_vars

\* the lines of an upstream whose data is JSON of other shapes
ShapeLines ==
    { <<"P", "J5", "NL">>, <<"P", "Jnull", "NL">>, <<"P", "Jstr", "NL">>,
      <<"P", "Jlist", "NL">>, <<"P", "{dnull", "NL">>, <<"P", "{cnum", "NL">>,
      <<"P", "{ch5", "NL">>,
      <<"P", "oops", "NL">>,
      <<"P", "{oc", "m1", "m2", "}", "NL">> }

ShapesNext ==
    \/ \E line \in ShapeLines : UpstreamWrites(line)
    \/ \E n \in 1..MaxWire : CheckChunk(n)

SpecShapes == CommitInit /\ [][ShapesNext]_vars

\* C36: once check_chunk has returned True on a StreamChecker, every later
\* call on it returns True, whatever its chunk holds; accumulated_content
\* only ever grows at its end and has_tool_call, once True, stays True.
C36_CommitmentIsPermanent ==
    [][/\ (called /\ lastRet) => lastRet'
       /\ Len(checker'.accumulated_content) >= Len(checker.accumulated_content)
       /\ SubSeq(checker'.accumulated_content, 1, Len(checker.accumulated_content))
             = checker.accumulated_content
       /\ checker.has_tool_call => checker'.has_tool_call]_vars

\* a call made after commitment, on a chunk that is not valid UTF-8, has
\* returned True
C36_Witness ==
    /\ callLog.late = "undecodable"
    /\ lastRet

\* C37: no check_chunk call raises, whatever the data lines of its chunk
\* hold.
C37_CheckChunkNeverRaises == ~callLog.raised

----------------------------------------------------------------------------
(* The streaming forward: UpstreamClient.forward_request with is_stream.   *)
(* A StreamChecker is given the chunks the generator yields, to tell when  *)
(* the validator would commit; forward_request itself never consults one.  *)

\* forward_request returns the StreamingResponse: the status line and the
\* headers go to the client, then the body generator is run
forward_request ==
    /\ upstream = "idle"
    /\ upstream' = "open"
    /\ client' = [client EXCEPT !.status = 200, !.headers = TRUE]
    /\ UNCHANGED <<wire, meta, checker, called, lastRet, parsedTxt, parsedTool,
                   parsedFrames, delivTxt, delivTool, onlyKeepAlive, callLog>>
    /\ UNCHANGED notStream

\* async for chunk in response.aiter_bytes(): yield chunk
stream_generator(n) ==
    /\ upstream = "open"
    /\ n \in 1..Len(wire)
    /\ LET chunk == SubSeq(wire, 1, n)
           r     == check_chunk(checker, chunk)
           k     == Len(FramesIn(chunk, FALSE))
       IN  /\ wire' = SubSeq(wire, n + 1, Len(wire))
           /\ meta' = SubSeq(meta, k + 1, Len(meta))
           /\ checker' = r.self
           /\ lastRet' = r.ret
           /\ called' = TRUE
           /\ delivTxt' = Sat(delivTxt + SumTxt(meta, AllOf(k)))
           /\ delivTool' = (delivTool \/ AnyTool(meta, AllOf(k)))
           /\ client' = [client EXCEPT !.chunks = Min(@ + 1, 2)]
    /\ UNCHANGED <<upstream, parsedTxt, parsedTool, parsedFrames, onlyKeepAlive,
                   callLog>>
    /\ UNCHANGED notStream

\* the upstream closes its response: the generator ends and with it the
\* client's body
UpstreamCloses ==
    /\ upstream = "open"
    /\ wire = <<>>
    /\ upstream' = "closed"
    /\ client' = [client EXCEPT !.ended = TRUE]
    /\ UNCHANGED <<wire, meta, checker, called, lastRet, parsedTxt, parsedTool,
                   parsedFrames, delivTxt, delivTool, onlyKeepAlive, callLog>>
    /\ UNCHANGED notStream

ForwardInit == StreamVarsInit /\ upstream = "idle" /\ KwIdle /\ BowIdle /\ AppIdle /\ DataIdle

ForwardNext ==
    \/ forward_request
    \/ \E line \in Lines : UpstreamWrites(line)
    \/ \E n \in 1..MaxWire : stream_generator(n)
    \/ UpstreamCloses

SpecForward == ForwardInit /\ [][ForwardNext]_vars

\* C2: however the byte stream is cut into chunks, once the frames delivered
\* carry more than 2 characters of text check_chunk has returned True, and it
\* has returned True only if the delivered frames carry more than 2
\* characters of text or a tool call.
C2_CommitsWithinNFrames ==
    called => /\ (delivTxt > char_threshold => lastRet)
              /\ (lastRet => (delivTxt > char_threshold \/ delivTool))

\* C4: the client has received neither the response headers nor a chunk
\* unless the validator has committed, and when the upstream closes before
\* that the client has a 502 and no streamed bytes.
C4_NothingBeforeCommit ==
    /\ (client.headers \/ client.chunks > 0) => lastRet
    /\ (upstream = "closed" /\ ~lastRet) => (client.status = 502 /\ client.chunks = 0)

----------------------------------------------------------------------------
(* Basic moderation: the keywords file and KeywordFilter *)


\* the characters of keywords and texts; " " is white space
KwLetters == {"a", "A", "b", "B"}

\* the lines a keywords file is made of
KwLines ==
    { <<>>, <<" ">>, <<"a">>, <<" ", "a", " ">>, <<"A", "b">>,
      <<"#", "a">>, <<" ", "#", "a">>, <<"b", " ">> }

RECURSIVE SeqsUpTo(_, _)
SeqsUpTo(S, n) ==
    IF n = 0 THEN {<<>>}
    ELSE LET shorter == SeqsUpTo(S, n - 1)
         IN  shorter \cup {Append(q, x) : q \in shorter, x \in S}

KwFiles == SeqsUpTo(KwLines, KwMaxLines)
KwTexts == SeqsUpTo(KwLetters, KwMaxText)

\* the contents the keywords file is rewritten with
KwVersions == { <<<<"a">>>>, <<<<"#", "a">>, <<"A", "b">>>>, <<>> }

\* str.strip() of a line of the file
RECURSIVE kw_lstrip(_)
kw_lstrip(s) == IF s # <<>> /\ Head(s) = " " THEN kw_lstrip(Tail(s)) ELSE s

RECURSIVE kw_rstrip(_)
kw_rstrip(s) ==
    IF s # <<>> /\ s[Len(s)] = " " THEN kw_rstrip(SubSeq(s, 1, Len(s) - 1)) ELSE s

C5MutKwStrip(s) == kw_rstrip(s)

kw_strip(s) == kw_rstrip(kw_lstrip(s))

\* KeywordFilter._load_patterns: one pattern per line that is neither blank
\* nor a comment; re.escape makes the keyword a literal
RECURSIVE _load_patterns(_)
_load_patterns(lines) ==
    IF lines = <<>> THEN <<>>
    ELSE LET kw == kw_strip(Head(lines))
         IN  IF kw = <<>> \/ Head(kw) = "#"
             THEN _load_patterns(Tail(lines))
             ELSE <<[pattern |-> kw, flags |-> "IGNORECASE"]>> \o _load_patterns(Tail(lines))

\* what re.IGNORECASE compares
casefold(c) == CASE c = "A" -> "a" [] c = "B" -> "b" [] OTHER -> c

\* Pattern.search(text): the literal at some offset of the text
RECURSIVE match_at(_, _, _)
match_at(p, text, i) ==
    IF i > Len(p.pattern) THEN TRUE
    ELSE IF i > Len(text) THEN FALSE
    ELSE LET same == IF p.flags = "IGNORECASE"
                     THEN casefold(text[i]) = casefold(p.pattern[i])
                     ELSE text[i] = p.pattern[i]
         IN  same /\ match_at(p, text, i + 1)

RECURSIVE search(_, _)
search(p, text) ==
    IF match_at(p, text, 1) THEN TRUE
    ELSE IF text = <<>> THEN FALSE
    ELSE search(p, Tail(text))

\* KeywordFilter.reload_if_needed
reload_if_needed(self, file) ==
    IF ~file.exists THEN [self EXCEPT !._patterns = <<>>]
    ELSE IF file.mtime # self._mtime
         THEN [self EXCEPT !._mtime = file.mtime,
                           !._patterns = _load_patterns(file.lines)]
         ELSE self

\* KeywordFilter.__init__
KeywordFilter(path, file) ==
    reload_if_needed([path |-> path, _mtime |-> 0, _patterns |-> <<>>], file)

\* the loop of KeywordFilter.match: the first pattern found in the text
RECURSIVE first_match(_, _)
first_match(patterns, text) ==
    IF patterns = <<>> THEN None
    ELSE IF search(Head(patterns), text) THEN Head(patterns).pattern
    ELSE first_match(Tail(patterns), text)

\* KeywordFilter.match: the object after the reload, and the value returned
match(self, text, file) ==
    LET s1 == reload_if_needed(self, file)
    IN  [self |-> s1, ret |-> first_match(s1._patterns, text)]

\* get_filter: the cache after the call (the filter asked for is its entry
\* for the path)
HasFilter(cache, path) == \E i \in 1..Len(cache) : cache[i].path = path

\* MemoryGuard.get_size of the filter cache: the dict's keys and values
filters_size(cache) == Len(cache) * FilterEntryBytes

\* check_container(_filters, ...): the cache after the check
check_filters(cache) == IF filters_size(cache) >= SIZE_THRESHOLD THEN <<>> ELSE cache

\* the type of basic.py's _filters, and the name it is tracked under
FiltersType == "dict"
FiltersName == "keyword_filters_dict"

\* MemoryGuard.track(container, name): weakref.ref(container) raises TypeError
\* for a dict or a list, and the bare except of track drops the error, the
\* registry left as it was; any other container is registered
track(tracked, name, type) ==
    IF type \in {"dict", "list"} THEN tracked ELSE tracked \cup {name}

\* get_filter that makes room by dropping the entry inserted last
C28MutGetFilter(cache, path, file) ==
    IF HasFilter(cache, path) THEN cache
    ELSE LET room == IF Len(cache) >= MAX_FILTERS
                     THEN SubSeq(cache, 1, Len(cache) - 1) ELSE cache
         IN  Append(room, [path |-> path, obj |-> KeywordFilter(path, file)])

get_filter(cache, path, file) ==
    IF HasFilter(cache, path) THEN check_filters(cache)
    ELSE LET room == IF Len(cache) >= MAX_FILTERS THEN Tail(cache) ELSE cache
         IN  check_filters(Append(room, [path |-> path, obj |-> KeywordFilter(path, file)]))

FilterIndex(cache, path) == CHOOSE i \in 1..Len(cache) : cache[i].path = path

\* basic_moderation(text, cfg): the cache after the call and the pair returned
basic_moderation(text, cfg, cache, file) ==
    IF ~cfg.enabled
    THEN [cache |-> cache, passed |-> TRUE, reason |-> None]
    ELSE LET c1 == get_filter(cache, cfg.keywords_file, file)
             i  == FilterIndex(c1, cfg.keywords_file)
             m  == match(c1[i].obj, text, file)
             c2 == [c1 EXCEPT ![i].obj = m.self]
         IN  IF m.ret # None
             THEN [cache |-> c2, passed |-> FALSE, reason |-> m.ret]
             ELSE [cache |-> c2, passed |-> TRUE, reason |-> None]

KwPath == "configs/keywords.txt"

\* one request goes through basic_moderation
BasicModeration(text, enabled) ==
    LET r == basic_moderation(text, [enabled |-> enabled, keywords_file |-> KwPath],
                              _filters, kwFile)
    IN  /\ _filters' = r.cache
        /\ kwCall' = [called |-> TRUE, text |-> text, enabled |-> enabled,
                      passed |-> r.passed, reason |-> r.reason]
        /\ kwFresh' = (enabled =>
                         r.cache[FilterIndex(r.cache, KwPath)].obj._patterns
                           = (IF kwFile.exists THEN _load_patterns(kwFile.lines) ELSE <<>>))
        /\ UNCHANGED <<kwFile, kwAside, kwClock>>
        /\ UNCHANGED notKw

(* SpecBasic: any keywords file, left alone while requests are moderated *)

BasicInit ==
    /\ StreamIdle /\ BowIdle /\ AppIdle /\ DataIdle
    /\ \/ kwFile = NoFile
       \/ \E lines \in KwFiles : kwFile = [exists |-> TRUE, mtime |-> 1, lines |-> lines]
    /\ kwAside = NoFile
    /\ kwClock = 1
    /\ _filters = <<>>
    /\ kwCall = NoCall
    /\ kwFresh = TRUE

BasicNext ==
    \E text \in KwTexts, enabled \in BOOLEAN : BasicModeration(text, enabled)

SpecBasic == BasicInit /\ [][BasicNext]_vars

\* the keywords of the file, as the file format defines them: its lines
\* without the surrounding white space, except the blank ones and those
\* that start with #
Trimmed(line) ==
    LET idx == {i \in 1..Len(line) : line[i] # " "}
    IN  IF idx = {} THEN <<>>
        ELSE LET lo == CHOOSE i \in idx : \A j \in idx : i <= j
                 hi == CHOOSE i \in idx : \A j \in idx : i >= j
             IN  SubSeq(line, lo, hi)

KeywordsOf(file) ==
    IF ~file.exists THEN {}
    ELSE {kw \in {Trimmed(file.lines[i]) : i \in 1..Len(file.lines)} :
            kw # <<>> /\ kw[1] # "#"}

SameLetter(c, d) ==
    \/ c = d
    \/ {c, d} = {"a", "A"}
    \/ {c, d} = {"b", "B"}

OccursIn(kw, text) ==
    \E off \in 0..(Len(text) - Len(kw)) :
        \A j \in 1..Len(kw) : SameLetter(kw[j], text[off + j])

WriteFile(lines) ==
    /\ kwClock < KwMaxClock
    /\ kwClock' = kwClock + 1
    /\ kwFile' = [exists |-> TRUE, mtime |-> kwClock + 1, lines |-> lines]
    /\ UNCHANGED <<kwAside, _filters, kwCall, kwFresh>>
    /\ UNCHANGED notKw

\* the file is renamed to another name
MoveAside ==
    /\ kwFile.exists
    /\ kwAside' = kwFile
    /\ kwFile' = NoFile
    /\ UNCHANGED <<kwClock, _filters, kwCall, kwFresh>>
    /\ UNCHANGED notKw

\* the file moved aside is renamed back: a rename keeps the mtime
MoveBack ==
    /\ kwAside.exists
    /\ kwFile' = kwAside
    /\ kwAside' = NoFile
    /\ UNCHANGED <<kwClock, _filters, kwCall, kwFresh>>
    /\ UNCHANGED notKw

\* the file is deleted
DeleteFile ==
    /\ kwFile.exists
    /\ kwFile' = NoFile
    /\ UNCHANGED <<kwAside, kwClock, _filters, kwCall, kwFresh>>
    /\ UNCHANGED notKw

KeywordInit ==
    /\ StreamIdle /\ BowIdle /\ AppIdle /\ DataIdle
    /\ \E lines \in KwVersions : kwFile = [exists |-> TRUE, mtime |-> 1, lines |-> lines]
    /\ kwAside = NoFile
    /\ kwClock = 1
    /\ _filters = <<>>
    /\ kwCall = NoCall
    /\ kwFresh = TRUE

KeywordNext ==
    \/ \E text \in KwTexts : BasicModeration(text, TRUE)
    \/ \E lines \in KwVersions : WriteFile(lines)
    \/ MoveAside
    \/ MoveBack
    \/ DeleteFile

SpecKeyword == KeywordInit /\ [][KeywordNext]_vars

\* C6: every match call matches the text against the keywords of the file
\* as it is at that call, none if the file is absent: the patterns of the
\* filter after the call's reload are those of the file.
C6_MatchesAgainstCurrentFile ==
    kwCall.called => kwFresh

----------------------------------------------------------------------------
(* bow.py: bow_predict.  Probabilities and thresholds are the points of a  *)
(* grid, ordered as the floats they stand for.                             *)

Grid == 0..PGrid

\* the same, with the high threshold itself taken as high risk
C7MutBowPredict(proba, low_t, high_t) ==
    IF proba < low_t
    THEN [violation |-> FALSE, reason |-> "low risk", confidence |-> proba]
    ELSE IF proba >= high_t
         THEN [violation |-> TRUE, reason |-> "high risk", confidence |-> proba]
         ELSE [violation |-> FALSE, reason |-> "uncertain", confidence |-> proba]

\* bow_predict, from the probability bow_predict_proba returned on
bow_predict(proba, low_t, high_t) ==
    IF proba < low_t
    THEN [violation |-> FALSE, reason |-> "low risk", confidence |-> proba]
    ELSE IF proba > high_t
         THEN [violation |-> TRUE, reason |-> "high risk", confidence |-> proba]
         ELSE [violation |-> FALSE, reason |-> "uncertain", confidence |-> proba]

\* one text is classified: the model gives it the probability proba, the
\* profile has the thresholds low_t and high_t
BowPredict(proba, low_t, high_t) ==
    LET r == bow_predict(proba, low_t, high_t)
    IN  /\ bowCall' = [called |-> TRUE, proba |-> r.confidence, low_t |-> low_t,
                       high_t |-> high_t, violation |-> r.violation,
                       reason |-> r.reason]
        /\ UNCHANGED <<store, bow_training, vecFile, modelFile, trainer, reader,
                       _model_cache, bowClock, sched>>
        /\ UNCHANGED notBow

PredictInit == StreamIdle /\ KwIdle /\ BowIdle /\ AppIdle /\ DataIdle

PredictNext ==
    \E proba \in Grid, low_t \in Grid, high_t \in Grid :
       BowPredict(proba, low_t, high_t)

SpecPredict == PredictInit /\ [][PredictNext]_vars

\* C7: with low < high, bow_predict reports a violation exactly when
\* p > high; for p < low it reports low risk and for low <= p <= high, the
\* two boundaries included, it reports uncertain, and neither is a violation.
C7_ViolationIffAboveHigh ==
    (bowCall.called /\ bowCall.low_t < bowCall.high_t) =>
        /\ bowCall.violation <=> (bowCall.proba > bowCall.high_t)
        /\ bowCall.proba < bowCall.low_t =>
              (~bowCall.violation /\ bowCall.reason = "low risk")
        /\ (bowCall.low_t <= bowCall.proba /\ bowCall.proba <= bowCall.high_t) =>
              (~bowCall.violation /\ bowCall.reason = "uncertain")

\* a probability equal to the high threshold has been classified, not as a
\* violation
C7_Witness ==
    /\ bowCall.called
    /\ bowCall.low_t < bowCall.high_t
    /\ bowCall.proba = bowCall.high_t
    /\ ~bowCall.violation

----------------------------------------------------------------------------
(* bow.py: train_bow_model, step by step.  The samples are counted, not    *)
(* told apart; an artifact on disk carries the number of the training run  *)
(* that wrote it, and the vocabulary of a run is its own.                  *)
(* train_bow_model is called by the scheduler and by                       *)
(* tools/test_incremental_training.py, a process of its own, so its steps  *)
(* interleave with those of a prediction.                                  *)

\* SampleStorage.cleanup_excess_samples: the oldest go, max_items stay
cleanup_excess_samples(count, max_items) == Min(count, max_items)

\* SampleStorage.get_sample_ids: the ids of the newest samples, limit at most
get_sample_ids(count, limit) == Min(count, limit)

\* SampleStorage.load_by_ids: the samples the store holds under n ids
load_by_ids(count, n) == Min(count, n)

bow_model_exists == modelFile.exists /\ vecFile.exists

\* the slice taken as if it began one place earlier
C34MutBatchIds(i, n, len) == {k \in 1..len : i <= k /\ k <= i + n}

\* ids[i:i + n], as the places of a list of len ids counted from 1
batch_ids(i, n, len) == {k \in 1..len : i < k /\ k <= i + n}

\* fit_transform / partial_fit on the samples at the places of a batch
fit(fits, batch) == [k \in DOMAIN fits |-> IF k \in batch THEN fits[k] + 1 ELSE fits[k]]

TrainerAt(pc) == trainer.pc = pc

\* train_bow_model(profile) is called: start_time is taken
train_bow_model ==
    /\ TrainerAt("idle")
    /\ trainer.run < MaxRuns
    /\ trainer' = [pc |-> "count", run |-> trainer.run + 1, held |-> store,
                   ids |-> 0, i |-> 0, over |-> FALSE, fits |-> NoFits]
    /\ UNCHANGED <<bowCall, store, bow_training, vecFile, modelFile, reader,
                   _model_cache, bowClock, sched>>
    /\ UNCHANGED notBow

\* time.time() - start_time gets beyond max_seconds
TimeRunsOut ==
    /\ trainer.pc \in {"count", "first", "loop"}
    /\ ~trainer.over
    /\ trainer' = [trainer EXCEPT !.over = TRUE]
    /\ UNCHANGED <<bowCall, store, bow_training, vecFile, modelFile, reader,
                   _model_cache, bowClock, sched>>
    /\ UNCHANGED notBow

\* the same, with the count alone as the limit of the ids
C33MutTrainCount ==
    /\ TrainerAt("count")
    /\ LET kept  == cleanup_excess_samples(store, bow_training.max_db_items)
           total == kept
       IN  /\ store' = kept
           /\ trainer' =
                IF total < bow_training.min_samples
                THEN [trainer EXCEPT !.pc = "returned"]
                ELSE [trainer EXCEPT !.pc = "first",
                        !.ids = get_sample_ids(kept, total)]
    /\ UNCHANGED <<bowCall, bow_training, vecFile, modelFile, reader,
                   _model_cache, bowClock, sched>>
    /\ UNCHANGED notBow

\* the store is trimmed and counted, the ids are taken
TrainCount ==
    /\ TrainerAt("count")
    /\ LET kept  == cleanup_excess_samples(store, bow_training.max_db_items)
           total == kept
       IN  /\ store' = kept
           /\ trainer' =
                IF total < bow_training.min_samples
                THEN [trainer EXCEPT !.pc = "returned"]
                ELSE [trainer EXCEPT !.pc = "first",
                        !.ids = get_sample_ids(kept, Min(bow_training.max_samples, total))]
    /\ UNCHANGED <<bowCall, bow_training, vecFile, modelFile, reader,
                   _model_cache, bowClock, sched>>
    /\ UNCHANGED notBow

\* the first batch: loaded, tokenized and, if there is time left, fitted
TrainFirstBatch ==
    /\ TrainerAt("first")
    /\ LET first_batch_size == Min(bow_training.batch_size, trainer.ids)
           first_samples    == load_by_ids(store, first_batch_size)
       IN  IF first_samples = 0 \/ trainer.over
           THEN trainer' = [trainer EXCEPT !.pc = "returned"]
           ELSE \/ trainer' = [trainer EXCEPT !.i = first_batch_size,
                                 !.fits = fit(@, batch_ids(0, first_batch_size, trainer.ids)),
                                 !.pc = IF first_batch_size >= trainer.ids
                                        THEN "dump_vec" ELSE "loop"]
                \* fit_transform or partial_fit raises
                \/ trainer' = [trainer EXCEPT !.pc = "raised"]
    /\ UNCHANGED <<bowCall, store, bow_training, vecFile, modelFile, reader,
                   _model_cache, bowClock, sched>>
    /\ UNCHANGED notBow

\* one turn of the loop over the other batches
TrainBatch ==
    /\ TrainerAt("loop")
    /\ LET next == trainer.i + bow_training.batch_size
       IN  trainer' =
             IF trainer.over
             THEN [trainer EXCEPT !.pc = "dump_vec"]
             ELSE [trainer EXCEPT !.i = next,
                     !.fits = fit(@, batch_ids(trainer.i, bow_training.batch_size,
                                               trainer.ids)),
                     !.pc = IF next >= trainer.ids THEN "dump_vec" ELSE "loop"]
    /\ UNCHANGED <<bowCall, store, bow_training, vecFile, modelFile, reader,
                   _model_cache, bowClock, sched>>
    /\ UNCHANGED notBow

\* joblib.dump(vectorizer, path) opens path itself for writing: the file of
\* the run before is cut to nothing and the new bytes begin to arrive
TrainOpenVectorizer ==
    /\ TrainerAt("dump_vec")
    /\ \/ /\ vecFile' = [exists |-> TRUE, mtime |-> bowClock + 1, run |-> trainer.run,
                         whole |-> FALSE]
          /\ bowClock' = bowClock + 1
          /\ trainer' = [trainer EXCEPT !.pc = "write_vec"]
       \* the file cannot be opened
       \/ /\ trainer' = [trainer EXCEPT !.pc = "raised"]
          /\ UNCHANGED <<vecFile, bowClock>>
    /\ UNCHANGED <<bowCall, store, bow_training, modelFile, reader,
                   _model_cache, sched>>
    /\ UNCHANGED notBow

\* joblib.dump(vectorizer, ...): the last byte is written, or the dump raises
TrainDumpVectorizer ==
    /\ TrainerAt("write_vec")
    /\ \/ /\ vecFile' = [vecFile EXCEPT !.whole = TRUE]
          /\ trainer' = [trainer EXCEPT !.pc = "dump_model"]
       \/ /\ trainer' = [trainer EXCEPT !.pc = "raised"]
          /\ UNCHANGED vecFile
    /\ UNCHANGED <<bowCall, store, bow_training, modelFile, reader,
                   _model_cache, bowClock, sched>>
    /\ UNCHANGED notBow

\* joblib.dump(clf, path) opens path itself for writing
TrainOpenModel ==
    /\ TrainerAt("dump_model")
    /\ \/ /\ modelFile' = [exists |-> TRUE, mtime |-> bowClock + 1, run |-> trainer.run,
                         whole |-> FALSE]
          /\ bowClock' = bowClock + 1
          /\ trainer' = [trainer EXCEPT !.pc = "write_model"]
       \* the file cannot be opened
       \/ /\ trainer' = [trainer EXCEPT !.pc = "raised"]
          /\ UNCHANGED <<modelFile, bowClock>>
    /\ UNCHANGED <<bowCall, store, bow_training, vecFile, reader,
                   _model_cache, sched>>
    /\ UNCHANGED notBow

\* joblib.dump(clf, ...): the last byte is written, or the dump raises
TrainDumpModel ==
    /\ TrainerAt("write_model")
    /\ \/ /\ modelFile' = [modelFile EXCEPT !.whole = TRUE]
          /\ trainer' = [trainer EXCEPT !.pc = "returned"]
       \/ /\ trainer' = [trainer EXCEPT !.pc = "raised"]
          /\ UNCHANGED modelFile
    /\ UNCHANGED <<bowCall, store, bow_training, vecFile, reader,
                   _model_cache, bowClock, sched>>
    /\ UNCHANGED notBow

\* the caller goes on: after the return, or after it caught what was raised
TrainDone ==
    /\ trainer.pc \in {"returned", "raised"}
    /\ trainer' = [TrainerIdle EXCEPT !.run = trainer.run]
    /\ UNCHANGED <<bowCall, store, bow_training, vecFile, modelFile, reader,
                   _model_cache, bowClock, sched>>
    /\ UNCHANGED notBow

----------------------------------------------------------------------------
(* bow.py: _load_model_with_cache, step by step *)

ReaderAt(pc) == reader.pc = pc

\* bow_predict_proba calls _load_model_with_cache(profile)
_load_model_with_cache ==
    /\ ReaderAt("idle")
    /\ reader' = [ReaderIdle EXCEPT !.pc = "stat_model"]
    /\ UNCHANGED <<bowCall, store, bow_training, vecFile, modelFile, trainer,
                   _model_cache, bowClock, sched>>
    /\ UNCHANGED notBow

\* os.path.getmtime(model_path)
LoadStatModel ==
    /\ ReaderAt("stat_model")
    /\ reader' = IF modelFile.exists
                 THEN [reader EXCEPT !.pc = "stat_vec", !.model_mtime = modelFile.mtime]
                 ELSE [reader EXCEPT !.pc = "raised"]
    /\ UNCHANGED <<bowCall, store, bow_training, vecFile, modelFile, trainer,
                   _model_cache, bowClock, sched>>
    /\ UNCHANGED notBow

\* os.path.getmtime(vectorizer_path)
LoadStatVectorizer ==
    /\ ReaderAt("stat_vec")
    /\ reader' = IF vecFile.exists
                 THEN [reader EXCEPT !.pc = "cache", !.vectorizer_mtime = vecFile.mtime]
                 ELSE [reader EXCEPT !.pc = "raised"]
    /\ UNCHANGED <<bowCall, store, bow_training, vecFile, modelFile, trainer,
                   _model_cache, bowClock, sched>>
    /\ UNCHANGED notBow

\* the cached pair is returned if both mtimes are the cached ones, and
\* dropped otherwise
LoadCheckCache ==
    /\ ReaderAt("cache")
    /\ IF \E e \in _model_cache : /\ reader.model_mtime = e.model_mtime
                                   /\ reader.vectorizer_mtime = e.vectorizer_mtime
       THEN /\ \E e \in _model_cache :
                  reader' = [reader EXCEPT !.pc = "returned",
                               !.vectorizer = e.vectorizer, !.clf = e.clf]
            /\ UNCHANGED _model_cache
       ELSE /\ reader' = [reader EXCEPT !.pc = "load_vec"]
            /\ _model_cache' = {}
    /\ UNCHANGED <<bowCall, store, bow_training, vecFile, modelFile, trainer,
                   bowClock, sched>>
    /\ UNCHANGED notBow

\* joblib.load(vectorizer_path)
LoadVectorizer ==
    /\ ReaderAt("load_vec")
    /\ reader' = IF vecFile.exists /\ vecFile.whole
                 THEN [reader EXCEPT !.pc = "load_model", !.vectorizer = vecFile.run]
                 ELSE [reader EXCEPT !.pc = "raised"]
    /\ UNCHANGED <<bowCall, store, bow_training, vecFile, modelFile, trainer,
                   _model_cache, bowClock, sched>>
    /\ UNCHANGED notBow

\* joblib.load(model_path); the pair goes into the cache with the mtimes
\* taken at the start, and is returned
LoadModel ==
    /\ ReaderAt("load_model")
    /\ IF modelFile.exists /\ modelFile.whole
       THEN /\ reader' = [reader EXCEPT !.pc = "returned", !.clf = modelFile.run]
            /\ _model_cache' = {[vectorizer |-> reader.vectorizer, clf |-> modelFile.run,
                                 model_mtime |-> reader.model_mtime,
                                 vectorizer_mtime |-> reader.vectorizer_mtime]}
       ELSE /\ reader' = [reader EXCEPT !.pc = "raised"]
            /\ UNCHANGED _model_cache
    /\ UNCHANGED <<bowCall, store, bow_training, vecFile, modelFile, trainer,
                   bowClock, sched>>
    /\ UNCHANGED notBow

\* the prediction is over
LoadDone ==
    /\ reader.pc \in {"returned", "raised"}
    /\ reader' = ReaderIdle
    /\ UNCHANGED <<bowCall, store, bow_training, vecFile, modelFile, trainer,
                   _model_cache, bowClock, sched>>
    /\ UNCHANGED notBow

(* SpecTrain: a profile is trained while texts are classified with it *)

TrainCfgs ==
    [min_samples : 1..2, max_db_items : (MaxSamples - 1)..MaxSamples,
     max_samples : {MaxSamples}, batch_size : 1..2, retrain_interval_minutes : {1}]

TrainInit ==
    /\ StreamIdle /\ KwIdle /\ PredictIdle /\ AppIdle /\ DataIdle
    /\ store \in 0..MaxSamples
    /\ bow_training \in TrainCfgs
    /\ vecFile = NoArtifact
    /\ modelFile = NoArtifact
    /\ trainer = TrainerIdle
    /\ reader = ReaderIdle
    /\ _model_cache = {}
    /\ bowClock = 0
    /\ sched = NoLook

TrainNext ==
    \/ train_bow_model
    \/ TimeRunsOut
    \/ TrainCount
    \/ TrainFirstBatch
    \/ TrainBatch
    \/ TrainOpenVectorizer
    \/ TrainDumpVectorizer
    \/ TrainOpenModel
    \/ TrainDumpModel
    \/ TrainDone
    \/ _load_model_with_cache
    \/ LoadStatModel
    \/ LoadStatVectorizer
    \/ LoadCheckCache
    \/ LoadVectorizer
    \/ LoadModel
    \/ LoadDone

SpecTrain == TrainInit /\ [][TrainNext]_vars

\* C8: at every moment the vectorizer and the model a reader can load from
\* disk, those the model cache holds and those _load_model_with_cache
\* returns were written by one and the same training run.
C8_PairFromOneRun ==
    /\ bow_model_exists => vecFile.run = modelFile.run
    /\ \A e \in _model_cache : e.vectorizer = e.clf
    /\ ReaderAt("returned") => reader.vectorizer = reader.clf

\* C9: when train_bow_model has returned without raising, for a store that
\* held at least min_samples samples at the call, both files exist.
C9_ReturnLeavesBothFiles ==
    (TrainerAt("returned") /\ trainer.held >= bow_training.min_samples)
        => bow_model_exists

----------------------------------------------------------------------------
(* scheduler.py: should_train and train_all_profiles, for one profile *)

\* ModerationProfile.bow_model_exists(): both artifacts are there
profile_bow_model_exists(vectorizer, model) == model.exists /\ vectorizer.exists

\* the same, with a model as old as the interval taken as due
C10MutShouldTrain(sample_count, conf, vectorizer, model, now) ==
    IF sample_count < conf.min_samples THEN FALSE
    ELSE IF ~profile_bow_model_exists(vectorizer, model) THEN TRUE
    ELSE (now - model.mtime) >= conf.retrain_interval_minutes * 60

\* should_train(profile), from the sample count, the configuration, the two
\* files and the time
should_train(sample_count, conf, vectorizer, model, now) ==
    IF sample_count < conf.min_samples THEN FALSE
    ELSE IF ~profile_bow_model_exists(vectorizer, model) THEN TRUE
    ELSE (now - model.mtime) > conf.retrain_interval_minutes * 60

\* one turn of train_all_profiles for the profile: it is trained if
\* should_train says so, and skipped otherwise
train_all_profiles ==
    /\ TrainerAt("idle")
    /\ LET ret == should_train(store, bow_training, vecFile, modelFile, bowClock)
       IN  /\ ret => trainer.run < MaxRuns
           /\ sched' = [called |-> TRUE, ret |-> ret, sample_count |-> store,
                        vectorizer |-> vecFile.exists, model |-> modelFile.exists,
                        model_mtime |-> modelFile.mtime, now |-> bowClock]
           /\ trainer' = IF ret
                         THEN [pc |-> "count", run |-> trainer.run + 1, held |-> store,
                               ids |-> 0, i |-> 0, over |-> FALSE]
                         ELSE trainer
    /\ UNCHANGED <<bowCall, store, bow_training, vecFile, modelFile, reader,
                   _model_cache, bowClock>>
    /\ UNCHANGED notBow

\* time passes
ClockTicks ==
    /\ bowClock + SchedStep <= MaxNow
    /\ bowClock' = bowClock + SchedStep
    /\ UNCHANGED <<bowCall, store, bow_training, vecFile, modelFile, trainer, reader,
                   _model_cache, sched>>
    /\ UNCHANGED notBow

(* SpecSched: the scheduler looks at a profile again and again and trains  *)
(* it when should_train says so                                           *)

SchedCfgs ==
    [min_samples : 1..2, max_db_items : {MaxSamples}, max_samples : {MaxSamples},
     batch_size : {2}, retrain_interval_minutes : 0..2]

\* an artifact of an earlier run
OldArtifact == [exists |-> TRUE, mtime |-> 0, run |-> 0, whole |-> TRUE]

SchedInit ==
    /\ StreamIdle /\ KwIdle /\ PredictIdle /\ AppIdle /\ DataIdle
    /\ store \in 0..MaxSamples
    /\ bow_training \in SchedCfgs
    /\ \/ vecFile = NoArtifact /\ modelFile = NoArtifact
       \/ vecFile = OldArtifact /\ modelFile = OldArtifact
    /\ trainer = TrainerIdle
    /\ reader = ReaderIdle
    /\ _model_cache = {}
    /\ bowClock = 0
    /\ sched = NoLook

SchedNext ==
    \/ train_all_profiles
    \/ ClockTicks
    \/ TimeRunsOut
    \/ TrainCount
    \/ TrainFirstBatch
    \/ TrainBatch
    \/ TrainOpenVectorizer
    \/ TrainDumpVectorizer
    \/ TrainOpenModel
    \/ TrainDumpModel
    \/ TrainDone

SpecSched == SchedInit /\ [][SchedNext]_vars

\* C10: should_train returns true exactly when the profile has at least
\* min_samples samples and either lacks a trained model or has a model file
\* modified more than retrain_interval_minutes ago; and the scheduler trains
\* no profile that has fewer samples than min_samples.
C10_ShouldTrainIff ==
    /\ sched.called =>
         (sched.ret <=>
            /\ sched.sample_count >= bow_training.min_samples
            /\ \/ ~(sched.model /\ sched.vectorizer)
               \/ sched.now - sched.model_mtime
                    > bow_training.retrain_interval_minutes * 60)
    /\ ~TrainerAt("idle") => trainer.held >= bow_training.min_samples

\* a profile with enough samples and a model exactly as old as the interval
\* has been looked at and left alone
C10_Witness ==
    /\ sched.called /\ ~sched.ret
    /\ sched.sample_count >= bow_training.min_samples
    /\ sched.model /\ sched.vectorizer
    /\ bow_training.retrain_interval_minutes > 0
    /\ sched.now - sched.model_mtime = bow_training.retrain_interval_minutes * 60

----------------------------------------------------------------------------
(* SpecBudget: train_bow_model with fewer ids than samples, with artifacts *)
(* of an earlier run on disk or without, and with a time budget that runs  *)
(* out at any step                                                         *)

BudgetCfgs ==
    [min_samples : 1..2, max_db_items : (MaxSamples - 1)..MaxSamples,
     max_samples : 1..MaxSamples, batch_size : 1..2, retrain_interval_minutes : {1}]

BudgetInit ==
    /\ StreamIdle /\ KwIdle /\ PredictIdle /\ AppIdle /\ DataIdle
    /\ store \in 0..MaxSamples
    /\ bow_training \in BudgetCfgs
    /\ \/ vecFile = NoArtifact /\ modelFile = NoArtifact
       \/ vecFile = OldArtifact /\ modelFile = OldArtifact
    /\ trainer = TrainerIdle
    /\ reader = ReaderIdle
    /\ _model_cache = {}
    /\ bowClock = 0
    /\ sched = NoLook

BudgetNext ==
    \/ train_bow_model
    \/ TimeRunsOut
    \/ TrainCount
    \/ TrainFirstBatch
    \/ TrainBatch
    \/ TrainOpenVectorizer
    \/ TrainDumpVectorizer
    \/ TrainOpenModel
    \/ TrainDumpModel
    \/ TrainDone

SpecBudget == BudgetInit /\ [][BudgetNext]_vars

\* C32: at every moment each artifact on disk is completely written, and a
\* model on disk has beside it the vectorizer of the same or of a later
\* training run.
C32_ArtifactsReplacedAtomically ==
    /\ vecFile.whole
    /\ modelFile.whole
    /\ modelFile.exists => (vecFile.exists /\ vecFile.run >= modelFile.run)

\* C33: the step of train_bow_model that counts the samples either finds
\* fewer than min_samples, and then the call returns with nothing fitted and
\* both files as they were, or takes exactly min(count, max_samples) ids.
C33_AbortOrSelect ==
    [][(TrainerAt("count") /\ trainer'.pc # "count") =>
          IF store' < bow_training.min_samples
          THEN /\ trainer'.pc = "returned"
               /\ trainer'.fits = NoFits
               /\ trainer'.ids = 0
               /\ vecFile' = vecFile
               /\ modelFile' = modelFile
          ELSE /\ trainer'.pc = "first"
               /\ trainer'.ids = Min(store', bow_training.max_samples)]_vars

\* a run has given up for want of samples beside the artifacts of an
\* earlier run
C33_Witness ==
    /\ TrainerAt("returned")
    /\ trainer.ids = 0
    /\ store < bow_training.min_samples
    /\ vecFile = OldArtifact
    /\ modelFile = OldArtifact

\* C34: once the budget is exceeded no batch of the loop is fitted and the
\* run goes on to persist what it has; a batch of the loop is fitted only
\* when the budget was not exceeded at its start; no sample goes into more
\* than one fit; and a run that returns after a fit has written both files.
C34_BudgetStopsTheBatches ==
    [][/\ (TrainerAt("loop") /\ trainer.over) =>
             (trainer'.fits = trainer.fits /\ trainer'.pc \in {"loop", "dump_vec"})
       /\ (TrainerAt("loop") /\ trainer'.fits # trainer.fits) => ~trainer.over
       /\ \A k \in 1..MaxSamples : trainer'.fits[k] <= 1
       /\ (trainer'.pc = "returned" /\ trainer'.i > 0) =>
             /\ vecFile'.run = trainer'.run /\ vecFile'.whole
             /\ modelFile'.run = trainer'.run /\ modelFile'.whole]_vars

\* a run stopped by the budget with ids left over has returned with its
\* two files written
C34_Witness ==
    /\ TrainerAt("returned")
    /\ trainer.over
    /\ 0 < trainer.i /\ trainer.i < trainer.ids
    /\ vecFile.run = trainer.run /\ vecFile.whole
    /\ modelFile.run = trainer.run /\ modelFile.whole

----------------------------------------------------------------------------
(* app.py and scheduler.py on the event loop.  A task runs on the loop's   *)
(* thread from the moment it is resumed until its next await; the others   *)
(* wait.  train_bow_model is an ordinary function: the task that calls it  *)
(* stays on the thread until it returns.                                   *)

\* get_all_profiles(): the profile directories, in the order of os.listdir
Enumeration == <<"a", "b">>

Range(f) == {f[i] : i \in DOMAIN f}

\* the loop's thread runs no task
loop_is_free == loopHolder = "free"

\* where the scheduler task is after it called train_bow_model, taken as if
\* the training were handed to another thread and not waited for
C11MutAfterTrainCall == "tick"

\* where the scheduler task is after it called train_bow_model(profile)
after_train_call == "training"

\* the profiles left to the tick after an exception, taken as if the
\* try/except were around the for loop
C12MutAfterException(rest) == <<>>

\* the profiles left to the tick after an exception: the except clause is
\* inside the for loop
after_exception(rest) == rest

\* startup_event: the scheduler is started once, the memory guard task each time
startup_event ==
    /\ appState \in {"init", "running"}
    /\ loop_is_free
    /\ appState' = "running"
    /\ _memory_guard_task' = "running"
    /\ guardLoops' = Min(guardLoops + 1, MaxStartups)
    /\ IF ~_scheduler_started
       THEN /\ schedTask' = [pc |-> "ready", listed |-> <<>>, queue |-> <<>>]
            /\ tasksCreated' = tasksCreated + 1
            /\ _scheduler_started' = TRUE
       ELSE UNCHANGED <<schedTask, tasksCreated, _scheduler_started>>
    /\ UNCHANGED <<loopHolder, training, tickLog, pendingReq, afterShutdown>>
    /\ UNCHANGED notLoop

\* scheduler_loop is resumed (at its start, or when its sleep is over) and
\* train_all_profiles enumerates the profiles, or fails to
SchedulerWakes ==
    /\ appState \in {"running", "shutting", "stopped"}
    /\ schedTask.pc \in {"ready", "sleeping"}
    /\ loop_is_free
    /\ tickLog' = <<>>
    /\ afterShutdown' = (afterShutdown \/ appState = "stopped")
    /\ \/ /\ schedTask' = [pc |-> "tick", listed |-> Enumeration, queue |-> Enumeration]
          /\ loopHolder' = "scheduler"
       \/ /\ schedTask' = [pc |-> "sleeping", listed |-> <<>>, queue |-> <<>>]
          /\ UNCHANGED loopHolder
    /\ UNCHANGED <<appState, _scheduler_started, _memory_guard_task, guardLoops, tasksCreated,
                   training, pendingReq>>
    /\ UNCHANGED notLoop

InTick == loopHolder = "scheduler" /\ schedTask.pc = "tick" /\ schedTask.queue # <<>>

\* the next profile of the tick: ModerationProfile(name) or should_train raises
TickLookRaises ==
    /\ InTick
    /\ \E should \in {"load raised", "check raised"} :
          tickLog' = (Head(schedTask.queue) :> [should |-> should, called |-> FALSE,
                                                 result |-> None]) @@ tickLog
    /\ schedTask' = [schedTask EXCEPT !.queue = after_exception(Tail(schedTask.queue))]
    /\ UNCHANGED <<appState, _scheduler_started, _memory_guard_task, guardLoops, tasksCreated,
                   loopHolder, training, pendingReq, afterShutdown>>
    /\ UNCHANGED notLoop

\* the next profile of the tick: should_train says no
TickLookSkips ==
    /\ InTick
    /\ tickLog' = (Head(schedTask.queue) :> [should |-> "no", called |-> FALSE,
                                             result |-> None]) @@ tickLog
    /\ schedTask' = [schedTask EXCEPT !.queue = Tail(schedTask.queue)]
    /\ UNCHANGED <<appState, _scheduler_started, _memory_guard_task, guardLoops, tasksCreated,
                   loopHolder, training, pendingReq, afterShutdown>>
    /\ UNCHANGED notLoop

\* the next profile of the tick: should_train says yes and train_bow_model
\* is called, with some batches to go through
TickTrainCall ==
    /\ InTick
    /\ LET p == Head(schedTask.queue)
       IN  /\ tickLog' = (p :> [should |-> "yes", called |-> TRUE,
                                result |-> None]) @@ tickLog
           /\ \E b \in 1..MaxBatches : training' = (p :> b) @@ training
    /\ schedTask' = [schedTask EXCEPT !.pc = after_train_call,
                                      !.queue = Tail(schedTask.queue)]
    /\ afterShutdown' = (afterShutdown \/ appState = "stopped")
    /\ UNCHANGED <<appState, _scheduler_started, _memory_guard_task, guardLoops, tasksCreated,
                   loopHolder, pendingReq>>
    /\ UNCHANGED notLoop

\* a training in progress goes through one batch (bow.py 150-177: no await)
TrainRuns(p) ==
    /\ loopHolder = "scheduler"
    /\ p \in DOMAIN training
    /\ training[p] > 0
    /\ training' = [training EXCEPT ![p] = @ - 1]
    /\ UNCHANGED <<appState, _scheduler_started, _memory_guard_task, guardLoops, tasksCreated,
                   loopHolder, schedTask, tickLog, pendingReq, afterShutdown>>
    /\ UNCHANGED notLoop

\* a training in progress returns, or raises and the exception is caught
TrainEnds(p) ==
    /\ loopHolder = "scheduler"
    /\ p \in DOMAIN training
    /\ training[p] = 0
    /\ training' = [q \in DOMAIN training \ {p} |-> training[q]]
    /\ \/ /\ tickLog' = [tickLog EXCEPT ![p].result = "returned"]
          /\ schedTask' = [schedTask EXCEPT !.pc = "tick"]
       \/ /\ tickLog' = [tickLog EXCEPT ![p].result = "raised"]
          /\ schedTask' = [schedTask EXCEPT !.pc = "tick",
                                            !.queue = after_exception(schedTask.queue)]
    /\ UNCHANGED <<appState, _scheduler_started, _memory_guard_task, guardLoops, tasksCreated,
                   loopHolder, pendingReq, afterShutdown>>
    /\ UNCHANGED notLoop

\* the tick is over: await asyncio.sleep(...)
TickEnds ==
    /\ loopHolder = "scheduler"
    /\ schedTask.pc = "tick"
    /\ schedTask.queue = <<>>
    /\ schedTask' = [schedTask EXCEPT !.pc = "sleeping"]
    /\ loopHolder' = "free"
    /\ UNCHANGED <<appState, _scheduler_started, _memory_guard_task, guardLoops, tasksCreated,
                   training, tickLog, pendingReq, afterShutdown>>
    /\ UNCHANGED notLoop

\* a request reaches the server
RequestArrives ==
    /\ appState = "running"
    /\ pendingReq < MaxPending
    /\ pendingReq' = pendingReq + 1
    /\ UNCHANGED <<appState, _scheduler_started, _memory_guard_task, guardLoops, tasksCreated,
                   loopHolder, schedTask, training, tickLog, afterShutdown>>
    /\ UNCHANGED notLoop

\* a request handler runs on the loop
HandleRequest ==
    /\ appState = "running"
    /\ loop_is_free
    /\ pendingReq > 0
    /\ pendingReq' = pendingReq - 1
    /\ UNCHANGED <<appState, _scheduler_started, _memory_guard_task, guardLoops, tasksCreated,
                   loopHolder, schedTask, training, tickLog, afterShutdown>>
    /\ UNCHANGED notLoop

\* shutdown_event up to its first await: the memory guard task is cancelled
shutdown_event ==
    /\ appState = "running"
    /\ loop_is_free
    /\ appState' = "shutting"
    /\ _memory_guard_task' = "cancelled"
    /\ guardLoops' = IF _memory_guard_task = "running" THEN guardLoops - 1 ELSE guardLoops
    /\ UNCHANGED <<_scheduler_started, tasksCreated, loopHolder, schedTask, training,
                   tickLog, pendingReq, afterShutdown>>
    /\ UNCHANGED notLoop

\* shutdown_event, the rest: the pools are cleaned up and the handler returns
ShutdownCompletes ==
    /\ appState = "shutting"
    /\ loop_is_free
    /\ appState' = "stopped"
    /\ UNCHANGED <<_scheduler_started, _memory_guard_task, guardLoops, tasksCreated,
                   loopHolder,
                   schedTask, training, tickLog, pendingReq, afterShutdown>>
    /\ UNCHANGED notLoop

\* the server closes the loop: what is left of the tasks goes with it
ProcessExits ==
    /\ appState = "stopped"
    /\ loop_is_free
    /\ appState' = "exited"
    /\ schedTask' = [schedTask EXCEPT !.pc = "cancelled"]
    /\ guardLoops' = 0
    /\ UNCHANGED <<_scheduler_started, _memory_guard_task, tasksCreated, loopHolder,
                   training, tickLog, pendingReq, afterShutdown>>
    /\ UNCHANGED notLoop

LoopInit == StreamIdle /\ KwIdle /\ BowIdle /\ AppIdle /\ DataIdle

LoopNext ==
    \/ startup_event
    \/ SchedulerWakes
    \/ TickLookRaises
    \/ TickLookSkips
    \/ TickTrainCall
    \/ \E p \in Range(Enumeration) : TrainRuns(p)
    \/ \E p \in Range(Enumeration) : TrainEnds(p)
    \/ TickEnds
    \/ RequestArrives
    \/ HandleRequest
    \/ shutdown_event
    \/ ShutdownCompletes
    \/ ProcessExits

SpecLoop == LoopInit /\ [][LoopNext]_vars

\* C11: at most one train_bow_model invocation is in progress at any
\* moment, over all profiles and ticks: there is one scheduler task, it
\* trains the profiles of a tick one after another, and it begins no tick
\* while a training is in progress.
C11_OneTrainingAtATime ==
    /\ Cardinality(DOMAIN training) <= 1
    /\ tasksCreated <= 1
    /\ training # NoTraining => schedTask.pc = "training"

\* a training is in progress while another profile of the tick waits
C11_Witness ==
    /\ Cardinality(DOMAIN training) = 1
    /\ schedTask.queue # <<>>
    /\ _scheduler_started /\ appState = "running"

\* C12: when a tick is over, every profile it enumerated has been looked
\* at, whatever was raised on the way, and train_bow_model has been called
\* for each of them that should_train said yes to; and the scheduler task
\* sleeps until its next tick.
C12_ExceptionSkipsOneProfileOnly ==
    (schedTask.pc = "sleeping" /\ loop_is_free) =>
        /\ DOMAIN tickLog = Range(schedTask.listed)
        /\ \A p \in DOMAIN tickLog : tickLog[p].should = "yes" => tickLog[p].called

\* the first profile raised, the second one has been trained in the same
\* tick and the scheduler sleeps
C12_Witness ==
    /\ schedTask.pc = "sleeping"
    /\ DOMAIN tickLog = {"a", "b"}
    /\ tickLog["a"].should \in {"load raised", "check raised"}
    /\ tickLog["b"].called /\ tickLog["b"].result = "returned"

\* C13: while a training is in progress, a request that has arrived can be
\* handled: the loop is free for its handler.
C13_ServingNotBlocked ==
    (training # NoTraining /\ pendingReq > 0) => loop_is_free

\* C14: once shutdown_event has completed the scheduler task is cancelled:
\* no tick begins and no training starts any more.
C14_SchedulerCancelledAtShutdown ==
    /\ appState = "stopped" => schedTask.pc \in {"none", "cancelled"}
    /\ ~afterShutdown

\* C38: at most one scheduler loop and at most one memory-guard loop are
\* running at any time, however often the startup event has fired, and
\* once the shutdown handler has completed no memory-guard loop is running.
C38_OneLoopOfEachKind ==
    /\ tasksCreated <= 1
    /\ guardLoops <= 1
    /\ appState = "stopped" => guardLoops = 0

----------------------------------------------------------------------------
(* upstream.py: the pool of HTTP clients.  A base URL is a host letter     *)
(* followed by slashes; a client is the number it was created under.       *)

BaseUrls == {<<"a">>, <<"a", "/">>, <<"b">>, <<"b", "/", "/">>, <<"c">>}

\* _client_pool[base_url] of a key the pool does not hold
KeyError == [raised |-> TRUE, client |-> 0]

\* base_url.rstrip("/")
RECURSIVE url_rstrip(_)
url_rstrip(u) ==
    IF u # <<>> /\ u[Len(u)] = "/" THEN url_rstrip(SubSeq(u, 1, Len(u) - 1)) ELSE u

\* MemoryGuard.get_size of the pool: the dict's entries, keys and values
get_size(pool) == Cardinality(DOMAIN pool) * EntryBytes

\* check_container(_client_pool, ...): the pool after the check
check_container(pool) == IF get_size(pool) >= SIZE_THRESHOLD THEN <<>> ELSE pool

\* get_or_create_client(base_url): the pool and the clients made after the
\* call, and the client returned or the KeyError raised
get_or_create_client(pool, made, base_url) ==
    LET fresh   == Cardinality(made) + 1
        created == base_url \notin DOMAIN pool
        p1      == IF created THEN (base_url :> fresh) @@ pool ELSE pool
        p2      == check_container(p1)
    IN  [pool |-> p2,
         made |-> IF created THEN made \cup {[client |-> fresh, base_url |-> base_url]}
                  ELSE made,
         ret  |-> IF base_url \in DOMAIN p2
                  THEN [raised |-> FALSE, client |-> p2[base_url]]
                  ELSE KeyError]

\* UpstreamClient(base_url) is constructed, or its constructor raises
UpstreamClient(base_url) ==
    /\ Cardinality(clientsMade) < MaxClients
    /\ LET url == url_rstrip(base_url)
           r   == get_or_create_client(_client_pool, clientsMade, url)
       IN  /\ _client_pool' = r.pool
           /\ clientsMade' = r.made
           /\ upstreamClients' =
                IF r.ret.raised THEN upstreamClients
                ELSE upstreamClients \cup {[base_url |-> url, client |-> r.ret.client]}
    /\ UNCHANGED <<fwd, errorResp>>
    /\ UNCHANGED notUp

PoolInit == StreamIdle /\ KwIdle /\ BowIdle /\ AppIdle /\ DataIdle

PoolNext == \E base_url \in BaseUrls : UpstreamClient(base_url)

SpecPool == PoolInit /\ [][PoolNext]_vars

\* C15: at most one HTTP client has been created for a base URL, trailing
\* slashes apart, and the UpstreamClient objects of one base URL all hold
\* the same client.
C15_OneClientPerBaseUrl ==
    /\ \A c1 \in clientsMade, c2 \in clientsMade :
          url_rstrip(c1.base_url) = url_rstrip(c2.base_url) => c1 = c2
    /\ \A o1 \in upstreamClients, o2 \in upstreamClients :
          o1.base_url = o2.base_url => o1.client = o2.client

----------------------------------------------------------------------------
(* upstream.py: forward_request without streaming, and app.py's handler    *)
(* of unhandled exceptions.  Headers are a dict: a set of name/value pairs *)
(* with no name twice.                                                     *)

HeaderNames == {"Accept-Encoding", "accept-encoding", "ACCEPT-ENCODING", "Connection",
                "content-length", "Host", "authorization"}

\* str.lower() on the header names
lower(name) ==
    CASE name \in {"Accept-Encoding", "ACCEPT-ENCODING"} -> "accept-encoding"
      [] name = "Connection" -> "connection"
      [] name = "Host" -> "host"
      [] OTHER -> name

\* the value the client gave a header
ClientValue(name) ==
    CASE lower(name) = "accept-encoding" -> "zstd"
      [] lower(name) = "connection" -> "keep-alive"
      [] lower(name) = "content-length" -> "42"
      [] lower(name) = "host" -> "proxy.local"
      [] OTHER -> "secret"

ClientHeaders(names) == {[name |-> n, value |-> ClientValue(n)] : n \in names}

Formats == {None, "openai_chat", "claude_chat"}

\* the same, with the names compared as they are written
C16MutFilterHeaders(headers) ==
    LET kept == {h \in headers :
                    h.name \notin {"host", "content-length", "accept-encoding"}}
    IN  {h \in kept : h.name # "Accept-Encoding"}
          \cup {[name |-> "Accept-Encoding", value |-> "gzip, deflate, identity"]}

\* filtered_headers: the client's headers but host, content-length and
\* accept-encoding, then Accept-Encoding set
filter_headers(headers) ==
    LET kept == {h \in headers :
                    lower(h.name) \notin {"host", "content-length", "accept-encoding"}}
    IN  {h \in kept : h.name # "Accept-Encoding"}
          \cup {[name |-> "Accept-Encoding", value |-> "gzip, deflate, identity"]}

\* _transform_response as forward_request sees it: the content after the
\* try/except around the call
transform_response(content, outcome) ==
    CASE outcome = "translated" -> "translated"
      [] outcome = "no parser" -> content
      [] outcome = "raises" -> content

\* forward_request(..., is_stream=False): status and content of the response
forward_json(outcome, upstream_status, src_format, target_format, transform) ==
    IF outcome = "network error"
    THEN [status |-> 500, code |-> "UPSTREAM_ERROR", body |-> "error envelope",
          fields |-> {"code", "message", "type"}]
    ELSE LET content == IF outcome = "json" THEN "upstream json" ELSE "upstream text"
             final   == IF /\ src_format # None
                           /\ target_format # None
                           /\ src_format # target_format
                        THEN transform_response(content, transform)
                        ELSE content
         IN  [status |-> upstream_status, code |-> None, body |-> final, fields |-> {}]

\* the non-streaming call of forward_request for the request at hand: what
\* the upstream does and how the translation goes are part of the request
ForwardNonStream ==
    /\ ~fwd.called
    /\ LET r == forward_json(fwd.outcome, fwd.upstream_status, fwd.src_format,
                             fwd.target_format, fwd.transform)
       IN  /\ fwd' = [fwd EXCEPT !.called = TRUE, !.sent = filter_headers(fwd.headers),
                                 !.status = r.status, !.code = r.code, !.body = r.body]
           /\ errorResp' = IF fwd.outcome = "network error"
                           THEN [produced |-> TRUE, status |-> r.status,
                                 fields |-> r.fields, code |-> r.code]
                           ELSE errorResp
    /\ UNCHANGED <<_client_pool, clientsMade, upstreamClients>>
    /\ UNCHANGED notUp

\* global_exception_handler answers an exception no handler caught
global_exception_handler ==
    /\ ~fwd.called
    /\ errorResp' = [produced |-> TRUE, status |-> 500, fields |-> {"message", "type"},
                     code |-> None]
    /\ UNCHANGED <<_client_pool, clientsMade, upstreamClients, fwd>>
    /\ UNCHANGED notUp

\* the requests: headers, dialects, and what will happen to them
Requests ==
    {[NoForward EXCEPT !.headers = ClientHeaders(names), !.outcome = outcome,
                       !.upstream_status = upstream_status,
                       !.src_format = src_format, !.target_format = target_format,
                       !.transform = transform] :
        names \in SUBSET HeaderNames,
        outcome \in {"json", "not json", "network error"},
        upstream_status \in {200, 429},
        src_format \in Formats, target_format \in Formats,
        transform \in {"translated", "no parser", "raises"}}

UpstreamInit ==
    /\ StreamIdle /\ KwIdle /\ BowIdle /\ LoopIdle /\ DataIdle
    /\ _client_pool = <<>>
    /\ clientsMade = {}
    /\ upstreamClients = {}
    /\ fwd \in Requests
    /\ errorResp = NoError

UpstreamNext ==
    \/ ForwardNonStream
    \/ global_exception_handler

SpecUpstream == UpstreamInit /\ [][UpstreamNext]_vars

HopByHop == {"connection", "keep-alive", "transfer-encoding", "te", "upgrade",
             "proxy-authorization", "trailer"}

\* C16: whatever the client's headers and the case of their names, the
\* headers sent upstream hold exactly one Accept-Encoding header, with the
\* value `gzip, deflate, identity`.
C16_OneAcceptEncoding ==
    fwd.called =>
        LET ae == {h \in fwd.sent : lower(h.name) = "accept-encoding"}
        IN  /\ Cardinality(ae) = 1
            /\ \A h \in ae : h.value = "gzip, deflate, identity"

\* the client sent Accept-Encoding under two spellings and a call was made
C16_Witness ==
    /\ fwd.called
    /\ {"ACCEPT-ENCODING", "accept-encoding"} \subseteq {h.name : h \in fwd.headers}

\* C17: no hop-by-hop header and no Content-Length of the client is sent
\* upstream, and every other header of the client (Accept-Encoding apart,
\* which is set anew) is sent with its name and value unchanged.
C17_HopByHopRemovedOthersKept ==
    fwd.called =>
        \A h \in fwd.headers :
            IF lower(h.name) \in HopByHop \cup {"content-length"}
            THEN \A t \in fwd.sent : t.name # h.name
            ELSE lower(h.name) # "accept-encoding" => h \in fwd.sent

\* C18: a network error of the non-streaming request is answered with
\* status 502 and code UPSTREAM_ERROR.
C18_NetworkErrorIs502 ==
    (fwd.called /\ fwd.outcome = "network error") =>
        (fwd.status = 502 /\ fwd.code = "UPSTREAM_ERROR")

\* C19: when the dialects differ and translating the upstream response
\* fails, the client gets status 500 with code RESPONSE_TRANSFORM_ERROR and
\* not the untranslated upstream body.
C19_TransformFailureIs500 ==
    (/\ fwd.called
     /\ fwd.outcome # "network error"
     /\ fwd.src_format # None /\ fwd.target_format # None
     /\ fwd.src_format # fwd.target_format
     /\ fwd.transform = "raises") =>
        /\ fwd.status = 500
        /\ fwd.code = "RESPONSE_TRANSFORM_ERROR"
        /\ fwd.body \notin {"upstream json", "upstream text"}

\* C20: every error response the gateway produces carries code, message
\* and type in its error envelope.
C20_EnvelopeHasThreeFields ==
    errorResp.produced => {"code", "message", "type"} \subseteq errorResp.fields


----------------------------------------------------------------------------
(* The sample store: storage.py's table samples, save_sample, and the       *)
(* deletion tool tools/delete_records_by_text.py                            *)

StoreTexts == {"a", "b"}
Labels == {0, 1}

\* the ids of a set of rows
IdsOf(rows) == {r.id : r \in rows}

\* the largest id among the rows, 0 for an empty table
MaxId(rows) == IF rows = {} THEN 0
               ELSE CHOOSE m \in IdsOf(rows) : \A i \in IdsOf(rows) : i <= m

\* a rowid chosen from the rows the table holds now: one more than the largest
C21MutNextRowid(rows, seq) == MaxId(rows) + 1

\* id INTEGER PRIMARY KEY AUTOINCREMENT: one more than the largest id the
\* table has ever held, which sqlite_sequence remembers
next_rowid(rows, seq) == Max(seq, MaxId(rows)) + 1

\* INSERT INTO samples (text, label, category): the row the store makes of
\* the caller's three values
insert_row(rows, seq, now, text, label, category) ==
    [id |-> next_rowid(rows, seq), text |-> text, label |-> label,
     category |-> category, created_at |-> now]

\* save_sample, up to the INSERT: the connection takes the write lock
SaveInsert(c, text, label) ==
    /\ saver[c].pc = "idle"
    /\ Len(arrivals) < MaxSaves
    /\ writer = None
    /\ LET row == insert_row(samples, sqlite_sequence, dbNow, text, label, None)
       IN  /\ saver' = [saver EXCEPT ![c] =
                          [pc |-> "inserted", text |-> text, label |-> label,
                           category |-> None, id |-> row.id,
                           created_at |-> row.created_at, raised |-> FALSE]]
           /\ sqlite_sequence' = row.id
           /\ arrivals' = Append(arrivals, [id |-> row.id, at |-> row.created_at,
                                            top |-> MaxId(samples)])
    /\ writer' = c
    /\ UNCHANGED <<samples, tool, dbNow>>
    /\ UNCHANGED connVars
    /\ UNCHANGED notStore

\* save_sample while another connection holds the write lock: the INSERT
\* raises (database is locked) and no row is made
SaveLocked(c, text, label) ==
    /\ saver[c].pc = "idle"
    /\ Len(arrivals) < MaxSaves
    /\ writer # None
    /\ saver' = [saver EXCEPT ![c] = [SaverIdle EXCEPT !.raised = TRUE]]
    /\ UNCHANGED <<samples, sqlite_sequence, writer, tool, arrivals, dbNow>>
    /\ UNCHANGED connVars
    /\ UNCHANGED notStore

\* save_sample: conn.commit(), and the call returns
SaveCommit(c) ==
    /\ saver[c].pc = "inserted"
    /\ writer = c
    /\ samples' = samples \cup {[id |-> saver[c].id, text |-> saver[c].text,
                                 label |-> saver[c].label,
                                 category |-> saver[c].category,
                                 created_at |-> saver[c].created_at]}
    /\ saver' = [saver EXCEPT ![c] = SaverIdle]
    /\ writer' = None
    /\ UNCHANGED <<sqlite_sequence, tool, arrivals, dbNow>>
    /\ UNCHANGED connVars
    /\ UNCHANGED notStore

\* find_records_by_text: the ids of the rows whose text holds search_text
find_records_by_text(rows, search_text) ==
    {r.id : r \in {x \in rows : x.text = search_text}}

ToolFinds(search_text) ==
    /\ tool.pc = "idle"
    /\ find_records_by_text(samples, search_text) # {}
    /\ tool' = [pc |-> "found", ids |-> find_records_by_text(samples, search_text)]
    /\ UNCHANGED <<samples, sqlite_sequence, writer, saver, arrivals, dbNow>>
    /\ UNCHANGED connVars
    /\ UNCHANGED notStore

\* delete_records_by_ids: DELETE ... WHERE id IN (ids), commit, VACUUM
delete_records_by_ids(rows, ids) == {r \in rows : r.id \notin ids}

ToolDeletes ==
    /\ tool.pc = "found"
    /\ writer = None
    /\ samples' = delete_records_by_ids(samples, tool.ids)
    /\ tool' = ToolIdle
    /\ UNCHANGED <<sqlite_sequence, writer, saver, arrivals, dbNow>>
    /\ UNCHANGED connVars
    /\ UNCHANGED notStore

\* the database's clock moves on
StoreClockTicks ==
    /\ dbNow < MaxDbNow
    /\ dbNow' = dbNow + 1
    /\ UNCHANGED <<samples, sqlite_sequence, writer, saver, tool, arrivals>>
    /\ UNCHANGED connVars
    /\ UNCHANGED notStore

StoreInit == StreamIdle /\ KwIdle /\ BowIdle /\ AppIdle /\ DataIdle

StoreNext ==
    \/ \E c \in Callers, text \in StoreTexts, label \in Labels : SaveInsert(c, text, label)
    \/ \E c \in Callers, text \in StoreTexts, label \in Labels : SaveLocked(c, text, label)
    \/ \E c \in Callers : SaveCommit(c)
    \/ \E search_text \in StoreTexts : ToolFinds(search_text)
    \/ ToolDeletes
    \/ StoreClockTicks

SpecStore == StoreInit /\ [][StoreNext]_vars

\* C21: each sample saved gets an id above every id handed out before it,
\* whatever was deleted in between; a row's id and created_at are the ones
\* the store made at the INSERT, and a caller hands in text, label and
\* category only.
C21_IdsAscendWithArrival ==
    /\ \A i, j \in 1..Len(arrivals) : i < j => arrivals[i].id < arrivals[j].id
    /\ \A r \in samples :
         \E i \in 1..Len(arrivals) : arrivals[i].id = r.id /\ arrivals[i].at = r.created_at
    /\ \A c \in Callers :
         saver[c].pc = "inserted" =>
           /\ saver[c].id = arrivals[Len(arrivals)].id
           /\ saver[c].created_at = arrivals[Len(arrivals)].at

\* a sample was saved after the row with the largest id had been deleted,
\* while the other caller's save was turned away
C21_Witness ==
    /\ \E i \in 1..Len(arrivals) : i > 1 /\ arrivals[i].top < arrivals[i - 1].id
    /\ \E c \in Callers : saver[c].raised


----------------------------------------------------------------------------
(* storage.py ConnectionPool under concurrent users of get_connection.  A   *)
(* connection is the number of its creation.                                *)

notConn == <<tableVars, notStore>>

Holds(u) == connUser[u].pc \in {"using", "finally", "putback"}

\* conn = self._pool.pop(), or sqlite3.connect(...) when the list is empty
take(pool, made) ==
    IF pool # <<>>
    THEN [conn |-> pool[Len(pool)], pool |-> SubSeq(pool, 1, Len(pool) - 1), made |-> made]
    ELSE [conn |-> Len(made) + 1, pool |-> pool, made |-> Append(made, "open")]

\* the finally clause, taken as if the connection were appended whatever
\* the length of the list
C39MutPutBack(pool, conn, max) == [pool |-> Append(pool, conn), closed |-> FALSE]

\* the finally clause: the connection goes back on the list when the list
\* is shorter than max_connections, and is closed when it is not
put_back(pool, conn, max) ==
    IF Len(pool) < max
    THEN [pool |-> Append(pool, conn), closed |-> FALSE]
    ELSE [pool |-> pool, closed |-> TRUE]

\* with pool.get_connection() as conn: is entered
GetConnection(u) ==
    /\ connUser[u].pc = "idle"
    /\ connUser' = [connUser EXCEPT ![u] = [UserIdle EXCEPT !.pc = "enter"]]
    /\ UNCHANGED <<max_connections, _pool, _lock, connections>>
    /\ UNCHANGED notConn

\* with self._lock: at the start, or in the finally clause
ConnLock(u) ==
    /\ connUser[u].pc \in {"enter", "finally"}
    /\ _lock = "free"
    /\ _lock' = u
    /\ connUser' = [connUser EXCEPT ![u].pc = IF @ = "enter" THEN "take" ELSE "putback"]
    /\ UNCHANGED <<max_connections, _pool, connections>>
    /\ UNCHANGED notConn

\* the connection is taken, the lock released and the connection yielded
ConnTake(u) ==
    /\ connUser[u].pc = "take"
    /\ _pool = <<>> => Len(connections) < MaxConnsMade
    /\ LET r == take(_pool, connections)
       IN  /\ _pool' = r.pool
           /\ connections' = r.made
           /\ connUser' = [connUser EXCEPT ![u].pc = "using", ![u].conn = r.conn]
    /\ _lock' = "free"
    /\ UNCHANGED max_connections
    /\ UNCHANGED notConn

\* the user's block ends, normally or with an exception
BlockEnds(u, raised) ==
    /\ connUser[u].pc = "using"
    /\ connUser' = [connUser EXCEPT ![u].pc = "finally", ![u].raised = raised]
    /\ UNCHANGED <<max_connections, _pool, _lock, connections>>
    /\ UNCHANGED notConn

\* the finally clause under the lock; then the lock is released
ConnPutBack(u) ==
    /\ connUser[u].pc = "putback"
    /\ LET r == put_back(_pool, connUser[u].conn, max_connections)
       IN  /\ _pool' = r.pool
           /\ connections' = IF r.closed
                             THEN [connections EXCEPT ![connUser[u].conn] = "closed"]
                             ELSE connections
           /\ connUser' = [connUser EXCEPT ![u].pc = "idle", ![u].conn = 0,
                              ![u].outcome = IF r.closed THEN "closed" ELSE "pooled"]
    /\ _lock' = "free"
    /\ UNCHANGED max_connections
    /\ UNCHANGED notConn

\* close_all(), called by cleanup_pools: under the lock
close_all ==
    /\ _lock = "free"
    /\ _pool # <<>>
    /\ connections' = [id \in DOMAIN connections |->
                         IF \E i \in 1..Len(_pool) : _pool[i] = id THEN "closed"
                         ELSE connections[id]]
    /\ _pool' = <<>>
    /\ UNCHANGED <<max_connections, _lock, connUser>>
    /\ UNCHANGED notConn

\* ConnectionPool(db_path, max_connections)
ConnInit ==
    /\ StreamIdle /\ KwIdle /\ BowIdle /\ AppIdle
    /\ TxIdle /\ DetectIdle /\ RegIdle
    /\ samples = {}
    /\ sqlite_sequence = 0
    /\ writer = None
    /\ saver = [c \in Callers |-> SaverIdle]
    /\ tool = ToolIdle
    /\ arrivals = <<>>
    /\ dbNow = 1
    /\ max_connections \in 1..MaxPoolSize
    /\ _pool = <<>>
    /\ _lock = "free"
    /\ connUser = [u \in Callers |-> UserIdle]
    /\ connections = <<>>

ConnNext ==
    \/ \E u \in Callers : GetConnection(u)
    \/ \E u \in Callers : ConnLock(u)
    \/ \E u \in Callers : ConnTake(u)
    \/ \E u \in Callers, raised \in BOOLEAN : BlockEnds(u, raised)
    \/ \E u \in Callers : ConnPutBack(u)
    \/ close_all

SpecConn == ConnInit /\ [][ConnNext]_vars

Idle(id) == \E i \in 1..Len(_pool) : _pool[i] = id

\* C39: no two users hold the same connection and a connection in use is
\* open and not on the idle list; every connection ever handed out is in
\* use, on the idle list or closed; the idle list holds no connection
\* twice and never more than max_connections.
C39_ConnectionsAccountedFor ==
    /\ \A u \in Callers, v \in Callers :
          (u # v /\ Holds(u) /\ Holds(v)) => connUser[u].conn # connUser[v].conn
    /\ \A u \in Callers :
          Holds(u) => (~Idle(connUser[u].conn) /\ connections[connUser[u].conn] = "open")
    /\ \A id \in DOMAIN connections :
          \/ connections[id] = "closed"
          \/ Idle(id)
          \/ \E u \in Callers : Holds(u) /\ connUser[u].conn = id
    /\ \A i \in 1..Len(_pool), j \in 1..Len(_pool) : _pool[i] = _pool[j] => i = j
    /\ Len(_pool) <= max_connections

\* a user whose block raised has finished and its connection was closed,
\* the idle list being full
C39_Witness ==
    /\ Len(_pool) = max_connections
    /\ \E u \in Callers :
          /\ connUser[u].pc = "idle"
          /\ connUser[u].raised
          /\ connUser[u].outcome = "closed"

----------------------------------------------------------------------------
(* Request translation: transform/formats/internal_models.py,               *)
(* openai_chat.py, claude_chat.py and claude_code.py.  A dict is a record;  *)
(* a key the dict does not have holds Absent; a value that is a string, a   *)
(* list or None carries its kind.                                           *)

\* a key a dict does not have
Absent == "<absent>"

\* dict.get(key, default)
get(value, default) == IF value = Absent THEN default ELSE value

\* value or default
or(value, default) == IF value \in {Absent, None, ""} THEN default ELSE value

\* "\n".join(texts)
RECURSIVE Join(_)
Join(texts) ==
    IF texts = <<>> THEN ""
    ELSE IF Len(texts) = 1 THEN texts[1]
    ELSE texts[1] \o "\n" \o Join(Tail(texts))

\* every element of a sequence of sequences, in order
RECURSIVE Concat(_)
Concat(seqs) == IF seqs = <<>> THEN <<>> ELSE Head(seqs) \o Concat(Tail(seqs))

\* a JSON value: its Python type and what json.dumps writes for it
JsonValue(type, repr) == [type |-> type, repr |-> repr]
EmptyDict == JsonValue("dict", "{}")
NoValue == JsonValue(None, None)

\* json.loads of a tool call's arguments string
json_loads_str(s) ==
    CASE s = "{}" -> [raised |-> FALSE, value |-> EmptyDict]
      [] s \in {"{\"a\":1}", "{\"a\": 1}"}
              -> [raised |-> FALSE, value |-> JsonValue("dict", "{\"a\": 1}")]
      [] s = "[1]" -> [raised |-> FALSE, value |-> JsonValue("list", "[1]")]
      [] s = "null" -> [raised |-> FALSE, value |-> JsonValue("NoneType", "null")]
      [] OTHER -> [raised |-> TRUE, value |-> NoValue]

\* json.dumps(value, ensure_ascii=False)
json_dumps(value) == value.repr

\* a content value: a string, a list of parts, a dict, None, or no key at all
Content(kind, str, parts) == [kind |-> kind, str |-> str, parts |-> parts]
StrContent(str) == Content("str", str, <<>>)
ListContent(parts) == Content("list", "", parts)
DictContent(value) == Content("dict", json_dumps(value), <<>>)
NoneContent == Content("none", "", <<>>)
AbsentContent == Content("absent", "", <<>>)

(* internal_models.py *)

NoToolCall == [id |-> None, name |-> None, arguments |-> NoValue]
NoToolResult == [call_id |-> None, name |-> None, output |-> NoneContent]
NoImage == [url |-> None, detail |-> None]

InternalTool(name, description, input_schema) ==
    [name |-> name, description |-> description, input_schema |-> input_schema]
InternalToolCall(id, name, arguments) ==
    [id |-> id, name |-> name, arguments |-> arguments]
InternalToolResult(call_id, name, output) ==
    [call_id |-> call_id, name |-> name, output |-> output]
InternalImageBlock(url, detail) == [url |-> url, detail |-> detail]
InternalContentBlock(type, text, tool_call, tool_result, image_url) ==
    [type |-> type, text |-> text, tool_call |-> tool_call,
     tool_result |-> tool_result, image_url |-> image_url]
InternalMessage(role, content) == [role |-> role, content |-> content]
InternalChatRequest(messages, model, stream, tools, extra) ==
    [raised |-> FALSE, messages |-> messages, model |-> model, stream |-> stream,
     tools |-> tools, extra |-> extra]

\* the keys of a request outside messages, model, stream and tools
NoExtra == [workingDirectory |-> Absent]

\* pydantic refuses a field: the conversion raises
ValidationError ==
    [raised |-> TRUE, messages |-> <<>>, model |-> None, stream |-> None,
     tools |-> <<>>, extra |-> NoExtra]

TextBlock(text) == InternalContentBlock("text", text, NoToolCall, NoToolResult, NoImage)
ToolCallBlock(tool_call) ==
    InternalContentBlock("tool_call", None, tool_call, NoToolResult, NoImage)
ToolResultBlock(tool_result) ==
    InternalContentBlock("tool_result", None, NoToolCall, tool_result, NoImage)
ImageBlock(image_url) ==
    InternalContentBlock("image_url", None, NoToolCall, NoToolResult, image_url)

\* InternalToolCall.arguments: dict
valid_block(b) == b.type = "tool_call" => b.tool_call.arguments.type = "dict"
valid_message(m) == \A i \in 1..Len(m.content) : valid_block(m.content[i])

(* openai_chat.py *)

OpenAIMessage(role, content, tool_calls, tool_call_id, name) ==
    [role |-> role, content |-> content, tool_calls |-> tool_calls,
     tool_call_id |-> tool_call_id, name |-> name]
OpenAIToolCall(id, name, arguments) ==
    [id |-> id, type |-> "function", function |-> [name |-> name, arguments |-> arguments]]
OpenAIPart(type, text, url, detail) ==
    [type |-> type, text |-> text, url |-> url, detail |-> detail]
OpenAITool(type, name, description, parameters) ==
    [type |-> type,
     function |-> [name |-> name, description |-> description, parameters |-> parameters]]

\* from_openai_chat, the loop over the parts of a list content
RECURSIVE from_openai_parts(_)
from_openai_parts(parts) ==
    IF parts = <<>> THEN <<>>
    ELSE LET part == Head(parts)
             rest == from_openai_parts(Tail(parts))
         IN  IF part.type = "text" THEN <<TextBlock(or(part.text, ""))>> \o rest
             ELSE IF part.type = "image_url"
                  THEN IF or(part.url, "") = "" THEN rest
                       ELSE <<ImageBlock(InternalImageBlock(part.url, get(part.detail, None)))>>
                              \o rest
             ELSE rest

\* from_openai_chat, one tool call of an assistant message
from_openai_tool_call(tc) ==
    LET parsed == json_loads_str(tc.function.arguments)
        args   == IF parsed.raised THEN EmptyDict ELSE parsed.value
    IN  ToolCallBlock(InternalToolCall(get(tc.id, ""), get(tc.function.name, ""), args))

\* from_openai_chat, one message
from_openai_message(msg) ==
    LET content == msg.content
        texts   == IF content.kind = "str" /\ content.str # ""
                   THEN <<TextBlock(content.str)>>
                   ELSE IF content.kind = "list" THEN from_openai_parts(content.parts)
                   ELSE <<>>
        result  == IF msg.role = "tool"
                   THEN <<ToolResultBlock(InternalToolResult(
                            get(msg.tool_call_id, ""), get(msg.name, None),
                            IF content.kind = "absent" THEN StrContent("") ELSE content))>>
                   ELSE <<>>
        calls   == [i \in 1..Len(msg.tool_calls) |-> from_openai_tool_call(msg.tool_calls[i])]
        blocks  == texts \o result \o calls
    IN  InternalMessage(get(msg.role, "user"),
                        IF blocks = <<>> THEN <<TextBlock("")>> ELSE blocks)

\* from_openai_chat
from_openai_chat(body) ==
    LET functions == SelectSeq(body.tools, LAMBDA t : t.type = "function")
        tools     == [i \in 1..Len(functions) |->
                        InternalTool(functions[i].function.name,
                                     get(functions[i].function.description, None),
                                     get(functions[i].function.parameters, "{}"))]
        messages  == [i \in 1..Len(body.messages) |-> from_openai_message(body.messages[i])]
    IN  IF \E i \in 1..Len(messages) : ~valid_message(messages[i])
        THEN ValidationError
        ELSE InternalChatRequest(messages, get(body.model, ""), get(body.stream, "False"),
                                 tools, NoExtra)

\* str(output)
str(output) ==
    CASE output.kind = "str" -> output.str
      [] output.kind = "none" -> "None"
      [] output.kind = "dict" -> "{...}"
      [] OTHER -> "[...]"

\* to_openai_chat, one message: the message itself unless its role is tool,
\* then one tool message per tool_result block
to_openai_message(m) ==
    LET text_blocks   == SelectSeq(m.content, LAMBDA b : b.type = "text" /\ b.text # None)
        tool_call_blocks   == SelectSeq(m.content, LAMBDA b : b.type = "tool_call")
        tool_result_blocks == SelectSeq(m.content, LAMBDA b : b.type = "tool_result")
        image_blocks  == SelectSeq(m.content,
                                   LAMBDA b : b.type = "image_url" /\ b.image_url # NoImage)
        shown   == SelectSeq(m.content,
                             LAMBDA b : \/ b.type = "text" /\ b.text # None
                                        \/ b.type = "image_url" /\ b.image_url # NoImage)
        parts   == [i \in 1..Len(shown) |->
                      IF shown[i].type = "text"
                      THEN OpenAIPart("text", shown[i].text, Absent, Absent)
                      ELSE OpenAIPart("image_url", Absent, shown[i].image_url.url,
                                      or(shown[i].image_url.detail, Absent))]
        content == IF image_blocks # <<>> THEN ListContent(parts)
                   ELSE IF text_blocks # <<>>
                        THEN StrContent(Join([i \in 1..Len(text_blocks) |-> text_blocks[i].text]))
                   ELSE IF tool_call_blocks = <<>> THEN StrContent("")
                   ELSE AbsentContent
        tool_calls == [i \in 1..Len(tool_call_blocks) |->
                         OpenAIToolCall(tool_call_blocks[i].tool_call.id,
                                        tool_call_blocks[i].tool_call.name,
                                        json_dumps(tool_call_blocks[i].tool_call.arguments))]
        results == [i \in 1..Len(tool_result_blocks) |->
                      LET tr == tool_result_blocks[i].tool_result
                      IN  OpenAIMessage("tool",
                                        StrContent(IF tr.output.kind = "dict" THEN tr.output.str
                                                   ELSE str(tr.output)),
                                        <<>>, tr.call_id, tr.name)]
    IN  (IF m.role # "tool"
         THEN <<OpenAIMessage(m.role, content, tool_calls, Absent, Absent)>>
         ELSE <<>>) \o results

OpenAIBody(model, messages, stream, tools) ==
    [model |-> model, messages |-> messages, stream |-> stream, tools |-> tools]

\* to_openai_chat
to_openai_chat(req) ==
    LET tools == [i \in 1..Len(req.tools) |->
                    OpenAITool("function", req.tools[i].name, req.tools[i].description,
                               req.tools[i].input_schema)]
        messages == Concat([i \in 1..Len(req.messages) |-> to_openai_message(req.messages[i])])
    IN  OpenAIBody(req.model, messages, req.stream, tools)

(* claude_chat.py *)

ClaudeBlock(type, text, id, name, input, tool_use_id, content) ==
    [type |-> type, text |-> text, id |-> id, name |-> name, input |-> input,
     tool_use_id |-> tool_use_id, content |-> content]
ClaudeText(text) == ClaudeBlock("text", text, Absent, Absent, NoValue, Absent, AbsentContent)
ClaudeToolUse(id, name, input) ==
    ClaudeBlock("tool_use", Absent, id, name, input, Absent, AbsentContent)
ClaudeToolResult(tool_use_id, content) ==
    ClaudeBlock("tool_result", Absent, Absent, Absent, NoValue, tool_use_id, content)
ClaudeImage == ClaudeBlock("image", Absent, Absent, Absent, NoValue, Absent, AbsentContent)
ClaudeMessage(role, content) == [role |-> role, content |-> content]
ClaudeTool(name, description, input_schema) ==
    [name |-> name, description |-> description, input_schema |-> input_schema]
ClaudeBody(model, stream, system, messages, tools) ==
    [model |-> model, stream |-> stream, system |-> system, messages |-> messages,
     tools |-> tools]

\* a text item of a list
TextItem(text) == [type |-> "text", text |-> text]

\* the texts of the items of type text
TextsOf(items) ==
    LET kept == SelectSeq(items, LAMBDA c : c.type = "text")
    IN  [i \in 1..Len(kept) |-> get(kept[i].text, "")]

\* _from_claude_chat, one content block: the blocks made of it
from_claude_block(c) ==
    IF c.type = "text" THEN <<TextBlock(get(c.text, ""))>>
    ELSE IF c.type = "tool_use"
         THEN <<ToolCallBlock(InternalToolCall(
                  get(c.id, ""), get(c.name, ""),
                  IF c.input.type = "dict" THEN c.input ELSE EmptyDict))>>
    ELSE IF c.type = "tool_result"
         THEN LET given  == IF c.content.kind = "absent" THEN StrContent("") ELSE c.content
                  output == IF given.kind = "list" THEN StrContent(Join(TextsOf(given.parts)))
                            ELSE given
              IN  <<ToolResultBlock(InternalToolResult(get(c.tool_use_id, ""), None, output))>>
    ELSE <<>>

\* _from_claude_chat, one message
from_claude_message(msg) ==
    LET blocks == IF msg.content.kind = "str" THEN <<TextBlock(msg.content.str)>>
                  ELSE Concat([i \in 1..Len(msg.content.parts) |->
                                 from_claude_block(msg.content.parts[i])])
    IN  InternalMessage(IF msg.role = "user" THEN "user" ELSE "assistant",
                        IF blocks = <<>> THEN <<TextBlock("")>> ELSE blocks)

\* _from_claude_chat
from_claude_chat(body) ==
    LET tools == [i \in 1..Len(body.tools) |->
                    InternalTool(body.tools[i].name, get(body.tools[i].description, None),
                                 get(body.tools[i].input_schema, "{}"))]
        system_text == IF body.system.kind = "str" THEN body.system.str
                       ELSE IF body.system.kind = "list" THEN Join(TextsOf(body.system.parts))
                       ELSE ""
        system == IF system_text # ""
                  THEN <<InternalMessage("system", <<TextBlock(system_text)>>)>>
                  ELSE <<>>
        messages == [i \in 1..Len(body.messages) |-> from_claude_message(body.messages[i])]
    IN  InternalChatRequest(system \o messages, get(body.model, ""),
                            get(body.stream, "False"), tools, NoExtra)

\* to_claude_chat, one content block: the blocks made of it
to_claude_block(b) ==
    IF b.type = "text" /\ b.text \notin {None, ""} THEN <<ClaudeText(b.text)>>
    ELSE IF b.type = "tool_call" /\ b.tool_call # NoToolCall
         THEN <<ClaudeToolUse(b.tool_call.id, b.tool_call.name, b.tool_call.arguments)>>
    ELSE IF b.type = "tool_result" /\ b.tool_result # NoToolResult
         THEN LET output == b.tool_result.output
                  result_content ==
                      IF output.kind \in {"str", "dict"}
                      THEN ListContent(<<TextItem(output.str)>>)
                      ELSE output
              IN  <<ClaudeToolResult(b.tool_result.call_id, result_content)>>
    ELSE <<>>

\* to_claude_chat, one message that is not a system message
to_claude_message(m) ==
    LET content == Concat([i \in 1..Len(m.content) |-> to_claude_block(m.content[i])])
    IN  IF content # <<>>
        THEN <<ClaudeMessage(IF m.role = "user" THEN "user" ELSE "assistant",
                             ListContent(content))>>
        ELSE <<>>

\* to_claude_chat
to_claude_chat(req) ==
    LET tools == [i \in 1..Len(req.tools) |->
                    ClaudeTool(req.tools[i].name, req.tools[i].description,
                               req.tools[i].input_schema)]
        system_msgs == SelectSeq(req.messages, LAMBDA m : m.role = "system")
        other_msgs  == SelectSeq(req.messages, LAMBDA m : m.role # "system")
        system_texts == Concat([i \in 1..Len(system_msgs) |->
                          LET kept == SelectSeq(system_msgs[i].content,
                                        LAMBDA b : b.type = "text" /\ b.text \notin {None, ""})
                          IN  [j \in 1..Len(kept) |-> kept[j].text]])
        system == IF system_texts # <<>> THEN StrContent(Join(system_texts))
                  ELSE AbsentContent
        claude_msgs == Concat([i \in 1..Len(other_msgs) |-> to_claude_message(other_msgs[i])])
    IN  ClaudeBody(req.model, req.stream, system, claude_msgs, tools)


(* claude_code.py *)

CodeTool(name, description, input_schema) ==
    [name |-> name, description |-> description, input_schema |-> input_schema]
McpServer(server_name, tools) == [server_name |-> server_name, tools |-> tools]
CodeBody(prompt, model, systemPrompt, mcpServers, workingDirectory) ==
    [prompt |-> prompt,
     options |-> [model |-> model, systemPrompt |-> systemPrompt,
                  mcpServers |-> mcpServers, workingDirectory |-> workingDirectory]]

ServerNames == {"default", "fs"}
ToolNames == {"read"}

\* from_claude_code, the tools of one MCP server
from_code_server(server) ==
    [i \in 1..Len(server.tools) |->
       InternalTool("mcp__" \o server.server_name \o "__" \o get(server.tools[i].name, ""),
                    get(server.tools[i].description, None),
                    get(server.tools[i].input_schema, "{}"))]

\* from_claude_code (of the options outside model, systemPrompt, mcpServers
\* and tool_choice the model keeps workingDirectory)
from_claude_code(body) ==
    LET options == body.options
        system == IF or(options.systemPrompt, "") # ""
                  THEN <<InternalMessage("system", <<TextBlock(options.systemPrompt)>>)>>
                  ELSE <<>>
        user == <<InternalMessage("user", <<TextBlock(get(body.prompt, ""))>>)>>
        tools == Concat([i \in 1..Len(options.mcpServers) |->
                           from_code_server(options.mcpServers[i])])
    IN  InternalChatRequest(system \o user, get(options.model, "claude-sonnet-4-5"), "False",
                            tools, [workingDirectory |-> get(options.workingDirectory, None)])

\* t.name.replace("mcp__default__", "")
replace_default(name) ==
    IF \E n \in ToolNames : name = "mcp__default__" \o n
    THEN CHOOSE n \in ToolNames : name = "mcp__default__" \o n
    ELSE name

\* the texts to_claude_code takes from the messages of one role
TextsOfRole(req, role) ==
    LET msgs == SelectSeq(req.messages, LAMBDA m : m.role = role)
    IN  Concat([i \in 1..Len(msgs) |->
                  LET kept == SelectSeq(msgs[i].content,
                                LAMBDA b : b.type = "text" /\ b.text \notin {None, ""})
                  IN  [j \in 1..Len(kept) |-> kept[j].text]])

\* to_claude_code
to_claude_code(req) ==
    LET system_texts == TextsOfRole(req, "system")
        user_texts == TextsOfRole(req, "user")
        tools == [i \in 1..Len(req.tools) |->
                    CodeTool(replace_default(req.tools[i].name), req.tools[i].description,
                             req.tools[i].input_schema)]
    IN  CodeBody(Join(user_texts), req.model,
                 IF system_texts # <<>> THEN Join(system_texts) ELSE Absent,
                 IF tools # <<>> THEN <<McpServer("default", tools)>> ELSE <<>>,
                 req.extra.workingDirectory)

(* SpecTranslate: a request of one dialect is parsed and rendered, or an     *)
(* InternalChatRequest is rendered and parsed back                           *)

Dialects == {"openai_chat", "claude_chat", "claude_code"}

\* sequences of 1..n elements of S
Seqs1(S, n) == SeqsUpTo(S, n) \ {<<>>}

ArgumentStrings == {"{}", "{\"a\": 1}", "[1]", "{oops"}
ImagePart == OpenAIPart("image_url", Absent, "http://i", Absent)
TextPart(text) == OpenAIPart("text", text, Absent, Absent)

OpenAIMessages ==
    {OpenAIMessage("user", c, <<>>, Absent, Absent) :
        c \in {StrContent("a"), ListContent(<<TextPart("a"), TextPart("b")>>),
               ListContent(<<TextPart("a"), ImagePart>>), ListContent(<<ImagePart>>)}}
    \cup {OpenAIMessage("system", StrContent("s"), <<>>, Absent, Absent)}
    \cup {OpenAIMessage("assistant", StrContent("a"), <<>>, Absent, Absent)}
    \cup {OpenAIMessage("assistant", NoneContent, <<OpenAIToolCall("t1", "f", a)>>,
                        Absent, Absent) : a \in ArgumentStrings}
    \cup {OpenAIMessage("assistant", StrContent("a"),
                        <<OpenAIToolCall("t1", "f", "{}"), OpenAIToolCall("t2", "g", "{oops")>>,
                        Absent, Absent)}
    \cup {OpenAIMessage("tool", c, <<>>, "t1", Absent) : c \in {StrContent("r"), StrContent("")}}

OpenAIBodies ==
    {OpenAIBody("m", messages, stream, tools) :
        messages \in Seqs1(OpenAIMessages, MaxMessages),
        stream \in {Absent, "True"},
        tools \in {<<>>, <<OpenAITool("function", "f", Absent, "{}")>>}}

ClaudeMessages ==
    {ClaudeMessage("user", c) :
        c \in {StrContent("a"), StrContent(""),
               ListContent(<<ClaudeText("a"), ClaudeText("b")>>),
               ListContent(<<ClaudeToolResult("t1", StrContent("r"))>>),
               ListContent(<<ClaudeToolResult("t1",
                               ListContent(<<TextItem("r"), TextItem("q")>>))>>)}}
    \cup {ClaudeMessage("assistant", c) :
        c \in {ListContent(<<ClaudeToolUse("t1", "f", JsonValue("dict", "{\"a\": 1}"))>>),
               ListContent(<<ClaudeText("a"), ClaudeToolUse("t1", "f", EmptyDict),
                             ClaudeToolUse("t2", "g", EmptyDict)>>)}}

ClaudeBodies ==
    {ClaudeBody("m", stream, system, messages, tools) :
        stream \in {Absent, "True"},
        system \in {AbsentContent, StrContent("s"),
                    ListContent(<<TextItem("s"), TextItem("t")>>)},
        messages \in Seqs1(ClaudeMessages, MaxMessages),
        tools \in {<<>>, <<ClaudeTool("f", Absent, "{}")>>}}

CodeBodies ==
    {CodeBody(prompt, model, systemPrompt, mcpServers, workingDirectory) :
        prompt \in {"a", "b"}, model \in {Absent, "m"}, systemPrompt \in {Absent, "s"},
        mcpServers \in {<<>>} \cup
            {<<McpServer(n, <<CodeTool("read", Absent, "{}")>>)>> : n \in ServerNames},
        workingDirectory \in {Absent, "/w"}}

ACall == ToolCallBlock(InternalToolCall("t1", "f", EmptyDict))
AResult == ToolResultBlock(InternalToolResult("t1", None, StrContent("r")))
AnImage == ImageBlock(InternalImageBlock("http://i", None))

\* messages of the block kinds every dialect has
InternalMessages ==
    {InternalMessage("user", c) :
        c \in {<<TextBlock("a")>>, <<TextBlock("a"), TextBlock("b")>>, <<TextBlock("")>>,
               <<AResult>>}}
    \cup {InternalMessage("system", <<TextBlock("s")>>)}
    \cup {InternalMessage("assistant", c) : c \in {<<ACall>>, <<TextBlock("a"), ACall>>}}
    \cup {InternalMessage("tool", <<AResult>>)}

\* messages with an image, which openai_chat.py alone has a block for
ImageMessages == {InternalMessage("user", <<TextBlock("a"), AnImage>>)}

InternalRequests(Messages) ==
    {InternalChatRequest(messages, "m", "False", tools, NoExtra) :
        messages \in Seqs1(Messages, MaxMessages),
        tools \in {<<>>, <<InternalTool("f", None, "{}")>>}}

FromOpenAI ==
    /\ \/ txRoute.from = "openai_chat" /\ txStep = 0
       \/ txRoute = [from |-> "internal", to |-> "openai_chat"] /\ txStep = 1
    /\ internal' = from_openai_chat(IF txStep = 0 THEN openai_in ELSE openai_out)
    /\ txStep' = txStep + 1
    /\ UNCHANGED <<txRoute, openai_in, claude_in, code_in, internal_in, openai_out,
                   claude_out, code_out>>
    /\ UNCHANGED notTx

ToOpenAI ==
    /\ txRoute.to = "openai_chat"
    /\ \/ txRoute.from = "internal" /\ txStep = 0
       \/ txRoute.from # "internal" /\ txStep = 1 /\ ~internal.raised
    /\ openai_out' = to_openai_chat(IF txStep = 0 THEN internal_in ELSE internal)
    /\ txStep' = txStep + 1
    /\ UNCHANGED <<txRoute, openai_in, claude_in, code_in, internal_in, internal,
                   claude_out, code_out>>
    /\ UNCHANGED notTx

FromClaude ==
    /\ \/ txRoute.from = "claude_chat" /\ txStep = 0
       \/ txRoute = [from |-> "internal", to |-> "claude_chat"] /\ txStep = 1
    /\ internal' = from_claude_chat(IF txStep = 0 THEN claude_in ELSE claude_out)
    /\ txStep' = txStep + 1
    /\ UNCHANGED <<txRoute, openai_in, claude_in, code_in, internal_in, openai_out,
                   claude_out, code_out>>
    /\ UNCHANGED notTx

ToClaude ==
    /\ txRoute.to = "claude_chat"
    /\ \/ txRoute.from = "internal" /\ txStep = 0
       \/ txRoute.from # "internal" /\ txStep = 1 /\ ~internal.raised
    /\ claude_out' = to_claude_chat(IF txStep = 0 THEN internal_in ELSE internal)
    /\ txStep' = txStep + 1
    /\ UNCHANGED <<txRoute, openai_in, claude_in, code_in, internal_in, internal,
                   openai_out, code_out>>
    /\ UNCHANGED notTx

FromClaudeCode ==
    /\ txRoute.from = "claude_code" /\ txStep = 0
    /\ internal' = from_claude_code(code_in)
    /\ txStep' = txStep + 1
    /\ UNCHANGED <<txRoute, openai_in, claude_in, code_in, internal_in, openai_out,
                   claude_out, code_out>>
    /\ UNCHANGED notTx

ToClaudeCode ==
    /\ txRoute.to = "claude_code" /\ txStep = 1
    /\ code_out' = to_claude_code(internal)
    /\ txStep' = txStep + 1
    /\ UNCHANGED <<txRoute, openai_in, claude_in, code_in, internal_in, internal,
                   openai_out, claude_out>>
    /\ UNCHANGED notTx

TranslateInit ==
    /\ StreamIdle /\ KwIdle /\ BowIdle /\ AppIdle /\ StoreIdle /\ DetectIdle /\ RegIdle
    /\ txStep = 0
    /\ internal = NoInternal
    /\ openai_out = NoOpenAI
    /\ claude_out = NoClaude
    /\ code_out = NoCode
    /\ \/ /\ txRoute \in {[from |-> "openai_chat", to |-> d] : d \in {"openai_chat", "claude_chat"}}
          /\ openai_in \in OpenAIBodies
          /\ claude_in = NoClaude /\ code_in = NoCode /\ internal_in = NoInternal
       \/ /\ txRoute \in {[from |-> "claude_chat", to |-> d] : d \in {"openai_chat", "claude_chat"}}
          /\ claude_in \in ClaudeBodies
          /\ openai_in = NoOpenAI /\ code_in = NoCode /\ internal_in = NoInternal
       \/ /\ txRoute = [from |-> "claude_code", to |-> "claude_code"]
          /\ code_in \in CodeBodies
          /\ openai_in = NoOpenAI /\ claude_in = NoClaude /\ internal_in = NoInternal
       \/ /\ txRoute = [from |-> "internal", to |-> "openai_chat"]
          /\ internal_in \in InternalRequests(InternalMessages \cup ImageMessages)
          /\ openai_in = NoOpenAI /\ claude_in = NoClaude /\ code_in = NoCode
       \/ /\ txRoute = [from |-> "internal", to |-> "claude_chat"]
          /\ internal_in \in InternalRequests(InternalMessages)
          /\ openai_in = NoOpenAI /\ claude_in = NoClaude /\ code_in = NoCode

TranslateNext ==
    \/ FromOpenAI
    \/ ToOpenAI
    \/ FromClaude
    \/ ToClaude
    \/ FromClaudeCode
    \/ ToClaudeCode

SpecTranslate == TranslateInit /\ [][TranslateNext]_vars


\* the tool calls of an OpenAI body, in order: id, name and the arguments
\* string parsed as JSON ({} for a string that is not JSON)
CallsOfOpenAI(body) ==
    Concat([i \in 1..Len(body.messages) |->
              [j \in 1..Len(body.messages[i].tool_calls) |->
                 LET tc == body.messages[i].tool_calls[j]
                     parsed == json_loads_str(tc.function.arguments)
                 IN  [id |-> tc.id, name |-> tc.function.name,
                      input |-> IF parsed.raised THEN EmptyDict ELSE parsed.value]]])

\* the tool_call blocks of an InternalChatRequest, in order
CallsOfInternal(req) ==
    Concat([i \in 1..Len(req.messages) |->
              LET calls == SelectSeq(req.messages[i].content, LAMBDA b : b.type = "tool_call")
              IN  [j \in 1..Len(calls) |->
                     [id |-> calls[j].tool_call.id, name |-> calls[j].tool_call.name,
                      input |-> calls[j].tool_call.arguments]]])

\* the tool_use blocks of a Claude body, in order
CallsOfClaude(body) ==
    Concat([i \in 1..Len(body.messages) |->
              LET uses == SelectSeq(body.messages[i].content.parts,
                                    LAMBDA c : c.type = "tool_use")
              IN  [j \in 1..Len(uses) |->
                     [id |-> uses[j].id, name |-> uses[j].name, input |-> uses[j].input]]])

IdAndName(calls) == [i \in 1..Len(calls) |-> [id |-> calls[i].id, name |-> calls[i].name]]

\* C22: the tool calls of an OpenAI request become tool_call blocks and then
\* Claude tool_use blocks with the same id and name, the arguments string
\* parsed as JSON for input ({} when it is not JSON, the conversion not
\* failing), in the original order; the tool_use blocks of a Claude
\* request keep id and name when rendered to OpenAI.
C22_ToolCallsSurvive ==
    /\ (txRoute = [from |-> "openai_chat", to |-> "claude_chat"] /\ txStep >= 1) =>
          /\ ~internal.raised
          /\ CallsOfInternal(internal) = CallsOfOpenAI(openai_in)
          /\ txStep = 2 => CallsOfClaude(claude_out) = CallsOfOpenAI(openai_in)
    /\ (txRoute = [from |-> "claude_chat", to |-> "openai_chat"] /\ txStep = 2) =>
          IdAndName(CallsOfOpenAI(openai_out)) = IdAndName(CallsOfClaude(claude_in))


\* C23: from_openai_chat makes of a role=tool message with tool_call_id X a
\* message of exactly one block, a tool_result with call_id X, and
\* to_claude_chat renders that message as exactly one tool_result block with
\* tool_use_id X.
C23_ToolMessageIsOneResult ==
    (txRoute.from = "openai_chat" /\ txStep >= 1 /\ ~internal.raised) =>
       \A i \in 1..Len(openai_in.messages) :
          openai_in.messages[i].role = "tool" =>
             LET X == openai_in.messages[i].tool_call_id
                 m == internal.messages[i]
                 rendered == to_claude_message(m)
             IN  /\ Len(m.content) = 1
                 /\ m.content[1].type = "tool_result"
                 /\ m.content[1].tool_result.call_id = X
                 /\ (txRoute.to = "claude_chat" /\ txStep = 2) =>
                       /\ Len(rendered) = 1
                       /\ Len(rendered[1].content.parts) = 1
                       /\ rendered[1].content.parts[1].type = "tool_result"
                       /\ rendered[1].content.parts[1].tool_use_id = X

\* a request body up to the order of its keys and the keys left out that
\* hold their default
CanonOpenAI(body) ==
    [body EXCEPT
       !.stream = get(@, "False"),
       !.tools = [i \in 1..Len(@) |->
                    [@[i] EXCEPT !.function.description = get(@, None),
                                 !.function.parameters = get(@, "{}")]],
       !.messages = [i \in 1..Len(@) |->
                       [@[i] EXCEPT
                          !.name = get(@, None),
                          !.content = IF @.kind = "none" THEN AbsentContent ELSE @,
                          !.tool_calls = [j \in 1..Len(@) |->
                             [@[j] EXCEPT !.function.arguments =
                                LET parsed == json_loads_str(@)
                                IN  IF parsed.raised THEN @ ELSE json_dumps(parsed.value)]]]]]

CanonClaudeContent(content) ==
    IF content.kind = "str" THEN ListContent(<<ClaudeText(content.str)>>)
    ELSE [content EXCEPT !.parts = [i \in 1..Len(@) |->
            IF @[i].type = "tool_result" /\ @[i].content.kind = "str"
            THEN [@[i] EXCEPT !.content = ListContent(<<TextItem(@.str)>>)]
            ELSE @[i]]]

CanonClaude(body) ==
    [body EXCEPT
       !.stream = get(@, "False"),
       !.tools = [i \in 1..Len(@) |-> [@[i] EXCEPT !.description = get(@, None),
                                                   !.input_schema = get(@, "{}")]],
       !.messages = [i \in 1..Len(@) |->
                       [@[i] EXCEPT !.content = CanonClaudeContent(@)]]]

CanonCode(body) ==
    [body EXCEPT
       !.options.model = get(@, "claude-sonnet-4-5"),
       !.options.workingDirectory = get(@, None),
       !.options.mcpServers = [i \in 1..Len(@) |->
          [@[i] EXCEPT !.tools = [j \in 1..Len(@) |->
             [@[j] EXCEPT !.description = get(@, None),
                          !.input_schema = get(@, "{}")]]]]]

\* C24: a request parsed from a dialect and rendered in the same dialect is
\* the request it was, up to key order and defaults left out.
C24_RoundTripFromDialect ==
    /\ (txRoute = [from |-> "openai_chat", to |-> "openai_chat"] /\ txStep = 2) =>
          CanonOpenAI(openai_out) = CanonOpenAI(openai_in)
    /\ (txRoute = [from |-> "claude_chat", to |-> "claude_chat"] /\ txStep = 2) =>
          CanonClaude(claude_out) = CanonClaude(claude_in)
    /\ (txRoute = [from |-> "claude_code", to |-> "claude_code"] /\ txStep = 2) =>
          CanonCode(code_out) = CanonCode(code_in)

\* C25: an InternalChatRequest rendered in a dialect that has all its block
\* kinds and parsed back is the request it was.
C25_RoundTripFromInternal ==
    (txRoute.from = "internal" /\ txStep = 2) => internal = internal_in

\* what a message holds, block by block: the kind and the text, url or id
SourceBlocks(msg) ==
    (IF msg.content.kind = "str" /\ msg.content.str # "" /\ msg.role # "tool"
     THEN <<[kind |-> "text", key |-> msg.content.str]>>
     ELSE IF msg.content.kind = "list"
          THEN [i \in 1..Len(msg.content.parts) |->
                  IF msg.content.parts[i].type = "text"
                  THEN [kind |-> "text", key |-> msg.content.parts[i].text]
                  ELSE [kind |-> "image", key |-> msg.content.parts[i].url]]
     ELSE <<>>)
    \o (IF msg.role = "tool" THEN <<[kind |-> "tool_result", key |-> msg.tool_call_id]>>
        ELSE <<>>)
    \o [i \in 1..Len(msg.tool_calls) |-> [kind |-> "tool_use", key |-> msg.tool_calls[i].id]]

RenderedBlocks(msg) ==
    [i \in 1..Len(msg.content.parts) |->
       LET c == msg.content.parts[i]
       IN  CASE c.type = "text" -> [kind |-> "text", key |-> c.text]
             [] c.type = "tool_use" -> [kind |-> "tool_use", key |-> c.id]
             [] c.type = "tool_result" -> [kind |-> "tool_result", key |-> c.tool_use_id]
             [] OTHER -> [kind |-> "image", key |-> None]]

\* a occurs in b, in order
RECURSIVE IsSubSeq(_, _)
IsSubSeq(a, b) ==
    IF a = <<>> THEN TRUE
    ELSE IF b = <<>> THEN FALSE
    ELSE IF Head(a) = Head(b) THEN IsSubSeq(Tail(a), Tail(b))
    ELSE IsSubSeq(a, Tail(b))

\* C26: every message of an OpenAI request that is not a system message has
\* its message in the Claude request rendered from it, and every text,
\* image, tool-call and tool-result block of the message is in it, in order.
C26_NothingLostToClaude ==
    (txRoute = [from |-> "openai_chat", to |-> "claude_chat"] /\ txStep = 2) =>
       LET source == SelectSeq(openai_in.messages, LAMBDA m : m.role # "system")
       IN  /\ Len(claude_out.messages) = Len(source)
           /\ \A i \in 1..Len(source) :
                 IsSubSeq(SourceBlocks(source[i]), RenderedBlocks(claude_out.messages[i]))


----------------------------------------------------------------------------
(* Dialect detection: can_parse_claude_code, can_parse_claude_chat,         *)
(* can_parse_openai_chat.  A body is the keys the three functions read:     *)
(* prompt, options, messages, anthropic_version, and contents (gemini: it   *)
(* is a list whose first item has parts).                                   *)

Paths == {"/v1/chat/completions", "/v1/messages", "/v1/complete"}

\* sub in path
InPath(sub, path) ==
    \/ sub = "/chat/completions" /\ path = "/v1/chat/completions"
    \/ sub = "/messages" /\ path = "/v1/messages"

DetHeaderNames == {"anthropic-version", "Anthropic-Version"}

\* k.lower() of a header name
header_lower(name) == IF name = "Anthropic-Version" THEN "anthropic-version" ELSE name

DetPart(type, cache_control) == [type |-> type, cache_control |-> cache_control]
DetMessage(role, kind, parts) == [role |-> role, kind |-> kind, parts |-> parts]

DetMessages ==
    {DetMessage("user", "str", <<>>),
     DetMessage("user", "list", <<DetPart("text", TRUE)>>),
     DetMessage("user", "list", <<DetPart("image_url", FALSE)>>),
     DetMessage("tool", "str", <<>>)}

DetBodies ==
    {[gemini |-> g, prompt |-> p, options |-> o, anthropic_version |-> Absent,
      messages |-> m, has_messages |-> (m # <<>>)] :
        g \in BOOLEAN, p \in {Absent, "p"}, o \in {Absent, "{}"},
        m \in {<<>>} \cup {<<x>> : x \in DetMessages}}

DetRequests ==
    {[path |-> path, headers |-> headers, body |-> body] :
        path \in Paths, headers \in SUBSET DetHeaderNames, body \in DetBodies}

\* can_parse_claude_code
can_parse_claude_code(path, headers, body) ==
    IF InPath("/messages", path) \/ "anthropic-version" \in headers THEN FALSE
    ELSE IF body.prompt # Absent /\ ~body.has_messages
         THEN body.options # Absent \/ body.prompt # Absent
    ELSE FALSE

\* can_parse_claude_chat
can_parse_claude_chat(path, headers, body) ==
    IF body.gemini THEN FALSE
    ELSE IF \E i \in 1..Len(body.messages) :
               \/ body.messages[i].role = "tool"
               \/ /\ body.messages[i].kind = "list"
                  /\ \E j \in 1..Len(body.messages[i].parts) :
                        body.messages[i].parts[j].type = "image_url"
         THEN FALSE
    ELSE IF \/ InPath("/messages", path)
            \/ "anthropic-version" \in {header_lower(k) : k \in headers}
            \/ body.anthropic_version # Absent
         THEN TRUE
    ELSE IF body.has_messages THEN TRUE
    ELSE body.prompt # Absent

\* can_parse_openai_chat
can_parse_openai_chat(path, headers, body) ==
    IF body.gemini THEN FALSE
    ELSE IF body.prompt # Absent /\ ~body.has_messages THEN FALSE
    ELSE IF \E i \in 1..Len(body.messages) :
               /\ body.messages[i].kind = "list"
               /\ \E j \in 1..Len(body.messages[i].parts) :
                     body.messages[i].parts[j].cache_control
         THEN FALSE
    ELSE IF InPath("/chat/completions", path) THEN TRUE
    ELSE body.has_messages

\* the adapters tried in the order claude_code, claude_chat, openai_chat:
\* the first that accepts wins
detect(path, headers, body) ==
    IF can_parse_claude_code(path, headers, body) THEN "claude_code"
    ELSE IF can_parse_claude_chat(path, headers, body) THEN "claude_chat"
    ELSE IF can_parse_openai_chat(path, headers, body) THEN "openai_chat"
    ELSE None

Detect ==
    /\ detected = "pending"
    /\ detected' = detect(detReq.path, detReq.headers, detReq.body)
    /\ UNCHANGED detReq
    /\ UNCHANGED notDet

DetectInit ==
    /\ StreamIdle /\ KwIdle /\ BowIdle /\ AppIdle /\ StoreIdle /\ TxIdle /\ RegIdle
    /\ detReq \in DetRequests
    /\ detected = "pending"

DetectNext == Detect

SpecDetect == DetectInit /\ [][DetectNext]_vars

\* the dialects that own a marker the request carries
Owners(req) ==
    {d \in Dialects :
       \/ /\ d = "openai_chat"
          /\ \/ InPath("/chat/completions", req.path)
             \/ \E i \in 1..Len(req.body.messages) : req.body.messages[i].role = "tool"
       \/ /\ d = "claude_chat"
          /\ \/ InPath("/messages", req.path)
             \/ "anthropic-version" \in {header_lower(k) : k \in req.headers}
             \/ \E i \in 1..Len(req.body.messages) :
                   \E j \in 1..Len(req.body.messages[i].parts) :
                      req.body.messages[i].parts[j].cache_control
       \/ /\ d = "claude_code"
          /\ req.body.prompt # Absent /\ ~req.body.has_messages}

\* C27: a request that carries markers of one dialect only is detected as
\* that dialect.
C27_MarkerDecidesDialect ==
    (detected # "pending" /\ ~detReq.body.gemini) =>
       \A d \in Dialects : Owners(detReq) = {d} => detected = d


----------------------------------------------------------------------------
(* The filter cache under many keywords files: basic.py get_filter.  A path  *)
(* is a number; a path not asked for before is the next number.              *)

PathsOf(cache) == [i \in 1..Len(cache) |-> cache[i].path]

\* the paths a call asks for: the next path never asked for, a path the
\* cache has dropped, the path of its earliest entry or of its latest
AskablePaths ==
    {p \in 1..Min(filterCall.seen + 1, MAX_FILTERS + ExtraPaths) :
        \/ ~HasFilter(_filters, p)
        \/ p = _filters[1].path
        \/ p = _filters[Len(_filters)].path}

\* get_filter(keywords_file)
GetFilter(keywords_file) ==
    /\ keywords_file \in AskablePaths
    /\ LET hit == HasFilter(_filters, keywords_file)
           evicts == ~hit /\ Len(_filters) >= MAX_FILTERS
       IN  /\ evicts => filterCall.evictions < MaxEvictions
           /\ _filters' = get_filter(_filters, keywords_file, kwFile)
           /\ filterCall' = [path |-> keywords_file, hit |-> hit,
                             seen |-> Max(filterCall.seen, keywords_file),
                             evictions |-> filterCall.evictions + (IF evicts THEN 1 ELSE 0)]
           /\ _tracked_objects' = IF hit THEN _tracked_objects
                                  ELSE track(_tracked_objects, FiltersName, FiltersType)
    /\ UNCHANGED <<kwFile, kwAside, kwClock, kwCall, kwFresh>>
    /\ UNCHANGED <<profileCache, profileFiles, worker, built, _filter_lock, guardLog>>
    /\ UNCHANGED bowVars
    /\ UNCHANGED upVars
    /\ UNCHANGED notReg

FiltersInit == StreamIdle /\ KwIdle /\ BowIdle /\ AppIdle /\ DataIdle

FiltersNext == \E keywords_file \in 1..(MAX_FILTERS + ExtraPaths) : GetFilter(keywords_file)

SpecFilters == FiltersInit /\ [][FiltersNext]_vars

----------------------------------------------------------------------------
(* The model cache under many profiles: bow.py _load_model_with_cache, one  *)
(* step per statement another caller can come between.  A profile is a      *)
(* number, a file's mtime the number of times it has been written again,    *)
(* an object the number of its creation among the objects of its key.       *)

notLoad == <<filterCall, _filter_lock, guardVars, kwVars, bowVars, upVars, notReg>>

\* profile_name in _model_cache
HasProfile(cache, p) == p \in DOMAIN cache

\* _model_cache[profile_name]
EntryOf(cache, p) == cache[p]

\* del _model_cache[profile_name]
del_profile(cache, p) == [q \in DOMAIN cache \ {p} |-> cache[q]]

\* _model_cache[profile_name] = (vectorizer, clf, model_mtime, vectorizer_mtime)
set_profile(cache, p, e) == (p :> e) @@ cache

\* len(_model_cache)
CacheLen(cache) == Cardinality(DOMAIN cache)

\* the objects built so far for a key of a registry
BuiltFor(registry, key) == {b \in built : b.registry = registry /\ b.key = key}

At(c, fn, pc) == worker[c].on /\ worker[c].fn = fn /\ worker[c].pc = pc

\* the profiles a prediction asks for: the profile that is trained again,
\* and the next profile never asked for
AskableProfiles == {1, CacheLen(profileCache) + 1} \cap DOMAIN profileFiles

\* bow_predict_proba calls _load_model_with_cache(profile)
LoadCall(c, p) ==
    /\ At(c, "none", "idle")
    /\ p \in AskableProfiles
    /\ worker' = [worker EXCEPT ![c] =
                    [WorkerIdle EXCEPT !.fn = "load", !.pc = "stat", !.profile = p]]
    /\ UNCHANGED <<profileCache, profileFiles, built>>
    /\ UNCHANGED notLoad

\* os.path.getmtime of the model file and of the vectorizer file
LoadStat(c) ==
    /\ At(c, "load", "stat")
    /\ LET f == profileFiles[worker[c].profile]
       IN  worker' = [worker EXCEPT ![c].pc = "check",
                                    ![c].model_mtime = f.model_mtime,
                                    ![c].vectorizer_mtime = f.vectorizer_mtime]
    /\ UNCHANGED <<profileCache, profileFiles, built>>
    /\ UNCHANGED notLoad

\* the look into the cache: the entry is returned when both mtimes are the
\* cached ones, and deleted when they are not
LoadCheck(c) ==
    /\ At(c, "load", "check")
    /\ LET w == worker[c]
           p == w.profile
       IN  IF HasProfile(profileCache, p)
           THEN LET e == EntryOf(profileCache, p)
                IN  IF /\ w.model_mtime = e.model_mtime
                       /\ w.vectorizer_mtime = e.vectorizer_mtime
                    THEN /\ worker' = [worker EXCEPT ![c].pc = "returned",
                                          ![c].reused = TRUE,
                                          ![c].got = [vectorizer |-> e.vectorizer,
                                                      clf |-> e.clf]]
                         /\ UNCHANGED profileCache
                    ELSE /\ worker' = [worker EXCEPT ![c].pc = "load"]
                         /\ profileCache' = del_profile(profileCache, p)
           ELSE /\ worker' = [worker EXCEPT ![c].pc = "load"]
                /\ UNCHANGED profileCache
    /\ UNCHANGED <<profileFiles, built>>
    /\ UNCHANGED notLoad

\* joblib.load of the vectorizer and of the model: new objects
LoadJoblib(c) ==
    /\ At(c, "load", "load")
    /\ LET obj == Cardinality(BuiltFor("model", worker[c].profile)) + 1
       IN  /\ built' = built \cup {[registry |-> "model", key |-> worker[c].profile,
                                    obj |-> obj]}
           /\ worker' = [worker EXCEPT ![c].pc = "store", ![c].obj = obj]
    /\ UNCHANGED <<profileCache, profileFiles>>
    /\ UNCHANGED notLoad

\* the objects go into the cache with the mtimes read at the start, and are
\* returned
LoadStore(c) ==
    /\ At(c, "load", "store")
    /\ LET w == worker[c]
       IN  /\ profileCache' =
                set_profile(profileCache, w.profile,
                            [vectorizer |-> w.obj, clf |-> w.obj,
                             model_mtime |-> w.model_mtime,
                             vectorizer_mtime |-> w.vectorizer_mtime])
           /\ worker' = [worker EXCEPT ![c].pc = "returned",
                            ![c].got = [vectorizer |-> w.obj, clf |-> w.obj]]
    /\ UNCHANGED <<profileFiles, built>>
    /\ UNCHANGED notLoad

\* the caller goes on with what it has received
WorkerReturns(c) ==
    /\ worker[c].on /\ worker[c].pc = "returned"
    /\ worker' = [worker EXCEPT ![c] = WorkerIdle]
    /\ UNCHANGED <<profileCache, profileFiles, built>>
    /\ UNCHANGED notLoad

\* train_bow_model writes the vectorizer file, or the model file, again
RewriteFile(p, which) ==
    /\ p \in DOMAIN profileFiles
    /\ profileFiles[p].model_mtime + profileFiles[p].vectorizer_mtime < MaxTouches
    /\ profileFiles' =
         IF which = "model"
         THEN [profileFiles EXCEPT ![p].model_mtime = @ + 1]
         ELSE [profileFiles EXCEPT ![p].vectorizer_mtime = @ + 1]
    /\ UNCHANGED <<profileCache, worker, built>>
    /\ UNCHANGED notLoad

\* every profile has its two files; one caller predicts
ModelCacheInit ==
    /\ StreamIdle /\ KwIdle /\ BowIdle /\ AppIdle
    /\ StoreIdle /\ TxIdle /\ DetectIdle
    /\ filterCall = NoFilterCall
    /\ _filter_lock = "free"
    /\ GuardIdle
    /\ profileCache = <<>>
    /\ profileFiles = [p \in 1..MaxProfiles |-> [model_mtime |-> 0, vectorizer_mtime |-> 0]]
    /\ worker = [c \in Callers |-> IF c = "c1" THEN WorkerIdle ELSE WorkerOff]
    /\ built = {}

ModelCacheNext ==
    \/ \E p \in 1..MaxProfiles : LoadCall("c1", p)
    \/ LoadStat("c1")
    \/ LoadCheck("c1")
    \/ LoadJoblib("c1")
    \/ LoadStore("c1")
    \/ WorkerReturns("c1")
    \/ \E which \in {"model", "vectorizer"} : RewriteFile(1, which)

SpecModelCache == ModelCacheInit /\ [][ModelCacheNext]_vars

\* C29: the model cache never holds more than 100 profiles' entries, and a
\* prediction that was given the cached entry had read, for the model file
\* and for the vectorizer file, the mtimes the entry was cached with.
C29_CacheCapAndReuse ==
    /\ CacheLen(profileCache) <= 100
    /\ \A c \in Callers :
          (At(c, "load", "returned") /\ worker[c].reused) =>
             /\ HasProfile(profileCache, worker[c].profile)
             /\ LET e == EntryOf(profileCache, worker[c].profile)
                IN  /\ worker[c].model_mtime = e.model_mtime
                    /\ worker[c].vectorizer_mtime = e.vectorizer_mtime
                    /\ worker[c].got = [vectorizer |-> e.vectorizer, clf |-> e.clf]


----------------------------------------------------------------------------
(* The three registries under concurrent callers: basic.py get_filter,      *)
(* bow.py _load_model_with_cache, upstream.py get_or_create_client.  Only   *)
(* get_filter takes a lock; the other two are stepped statement by          *)
(* statement.                                                               *)

filterFrame == <<filterCall, profileCache, profileFiles, kwFile, kwAside, kwClock,
                 kwCall, kwFresh, bowVars, upVars, notReg>>
filterRest == <<filterFrame, guardVars>>
clientRest == <<filterCall, profileCache, profileFiles, built, _filter_lock, guardVars,
                upstreamClients, fwd, errorResp, kwVars, bowVars, notReg>>

RegPaths == {1}
RegBaseUrls == {<<"a">>}

\* basic_moderation calls get_filter(keywords_file)
FilterCall(c, keywords_file) ==
    /\ At(c, "none", "idle")
    /\ worker' = [worker EXCEPT ![c] =
                    [WorkerIdle EXCEPT !.fn = "filter", !.pc = "acquire",
                                       !.keywords_file = keywords_file]]
    /\ UNCHANGED <<_filters, built, _filter_lock>>
    /\ UNCHANGED filterRest

\* the same, entered whether or not the lock is free
C31MutFilterAcquire(c) ==
    /\ At(c, "filter", "acquire") \/ At(c, "cleanup", "acquire")
    /\ _filter_lock' = c
    /\ worker' = [worker EXCEPT ![c].pc = "locked"]
    /\ UNCHANGED <<_filters, built>>
    /\ UNCHANGED filterRest

\* with _filter_lock: the caller waits until the lock is free
FilterAcquire(c) ==
    /\ At(c, "filter", "acquire") \/ At(c, "cleanup", "acquire")
    /\ _filter_lock = "free"
    /\ _filter_lock' = c
    /\ worker' = [worker EXCEPT ![c].pc = "locked"]
    /\ UNCHANGED <<_filters, built>>
    /\ UNCHANGED filterRest

\* the body of get_filter, the lock held
FilterBody(c) ==
    /\ At(c, "filter", "locked")
    /\ LET keywords_file == worker[c].keywords_file
           hit == HasFilter(_filters, keywords_file)
           after == get_filter(_filters, keywords_file, kwFile)
           obj == Cardinality(BuiltFor("filters", keywords_file)) + 1
       IN  /\ _filters' = after
           /\ built' = IF hit THEN built
                       ELSE built \cup {[registry |-> "filters", key |-> keywords_file,
                                         obj |-> obj]}
           /\ worker' = [worker EXCEPT ![c].pc = "release",
                            ![c].reused = hit,
                            ![c].got = IF HasFilter(after, keywords_file)
                                       THEN SelectSeq(after,
                                               LAMBDA e : e.path = keywords_file)[1]
                                       ELSE [raised |-> TRUE]]
           /\ _tracked_objects' = IF hit THEN _tracked_objects
                                  ELSE track(_tracked_objects, FiltersName, FiltersType)
    /\ UNCHANGED <<_filter_lock, guardLog>>
    /\ UNCHANGED filterFrame

\* the with statement is left
FilterRelease(c) ==
    /\ At(c, "filter", "release") \/ At(c, "cleanup", "release")
    /\ _filter_lock' = "free"
    /\ worker' = [worker EXCEPT ![c].pc = "returned"]
    /\ UNCHANGED <<_filters, built>>
    /\ UNCHANGED filterRest

\* shutdown_event calls cleanup_filters()
CleanupCall(c) ==
    /\ At(c, "none", "idle")
    /\ ~guardLog.cleaned
    /\ \A d \in Callers : worker[d].fn # "cleanup"
    /\ worker' = [worker EXCEPT ![c] =
                    [WorkerIdle EXCEPT !.fn = "cleanup", !.pc = "acquire"]]
    /\ UNCHANGED <<_filters, built, _filter_lock>>
    /\ UNCHANGED filterRest

\* _filters.clear(), the lock held
CleanupBody(c) ==
    /\ At(c, "cleanup", "locked")
    /\ _filters' = <<>>
    /\ guardLog' = [guardLog EXCEPT !.cleaned = TRUE]
    /\ worker' = [worker EXCEPT ![c].pc = "release"]
    /\ UNCHANGED <<built, _filter_lock, _tracked_objects>>
    /\ UNCHANGED filterFrame

\* memory_guard_loop wakes up and calls check_all_tracked(): every container
\* in the registry is examined and cleared when too large.  _filters is a
\* module global and is never collected.
check_all_tracked ==
    /\ _filters' = IF FiltersName \in _tracked_objects THEN check_filters(_filters)
                   ELSE _filters
    /\ guardLog' = [guardLog EXCEPT !.ran = TRUE,
                                    !.due = \E c \in Callers :
                                               /\ worker[c].fn = "filter"
                                               /\ worker[c].pc \in {"release", "returned"}
                                               /\ ~worker[c].reused,
                                    !.examined = _tracked_objects]
    /\ UNCHANGED <<worker, built, _filter_lock, _tracked_objects>>
    /\ UNCHANGED filterFrame

\* UpstreamClient.__init__ calls get_or_create_client(base_url)
ClientCall(c, base_url) ==
    /\ At(c, "none", "idle")
    /\ worker' = [worker EXCEPT ![c] =
                    [WorkerIdle EXCEPT !.fn = "client", !.pc = "check",
                                       !.base_url = base_url]]
    /\ UNCHANGED <<_client_pool, clientsMade>>
    /\ UNCHANGED clientRest

\* if base_url not in _client_pool
ClientCheck(c) ==
    /\ At(c, "client", "check")
    /\ worker' = [worker EXCEPT ![c].pc =
                    IF worker[c].base_url \in DOMAIN _client_pool THEN "guard"
                    ELSE "create"]
    /\ UNCHANGED <<_client_pool, clientsMade>>
    /\ UNCHANGED clientRest

\* _client_pool[base_url] = httpx.AsyncClient(...)
ClientCreate(c) ==
    /\ At(c, "client", "create")
    /\ LET fresh == Cardinality(clientsMade) + 1
       IN  /\ _client_pool' = (worker[c].base_url :> fresh) @@ _client_pool
           /\ clientsMade' = clientsMade \cup
                               {[client |-> fresh, base_url |-> worker[c].base_url]}
    /\ worker' = [worker EXCEPT ![c].pc = "guard"]
    /\ UNCHANGED clientRest

\* check_container(_client_pool, "http_client_pool")
ClientGuard(c) ==
    /\ At(c, "client", "guard")
    /\ _client_pool' = check_container(_client_pool)
    /\ worker' = [worker EXCEPT ![c].pc = "lookup"]
    /\ UNCHANGED clientsMade
    /\ UNCHANGED clientRest

\* return _client_pool[base_url]
ClientLookup(c) ==
    /\ At(c, "client", "lookup")
    /\ worker' = [worker EXCEPT ![c].pc = "returned",
                    ![c].got = IF worker[c].base_url \in DOMAIN _client_pool
                               THEN [raised |-> FALSE,
                                     client |-> _client_pool[worker[c].base_url]]
                               ELSE KeyError]
    /\ UNCHANGED <<_client_pool, clientsMade>>
    /\ UNCHANGED clientRest

\* the registries are empty, the files are there, the callers are in no call
RegistryInit ==
    /\ StreamIdle /\ KwIdle /\ BowIdle /\ AppIdle
    /\ StoreIdle /\ TxIdle /\ DetectIdle
    /\ filterCall = NoFilterCall
    /\ _filter_lock = "free"
    /\ GuardIdle
    /\ profileCache = <<>>
    /\ profileFiles = [p \in {1} |-> [model_mtime |-> 0, vectorizer_mtime |-> 0]]
    /\ worker = [c \in Callers |-> WorkerIdle]
    /\ built = {}

RegistryNext ==
    \/ \E c \in Callers, p \in {1} : LoadCall(c, p)
    \/ \E c \in Callers : LoadStat(c)
    \/ \E c \in Callers : LoadCheck(c)
    \/ \E c \in Callers : LoadJoblib(c)
    \/ \E c \in Callers : LoadStore(c)
    \/ \E c \in Callers, keywords_file \in RegPaths : FilterCall(c, keywords_file)
    \/ \E c \in Callers : FilterAcquire(c)
    \/ \E c \in Callers : FilterBody(c)
    \/ \E c \in Callers : FilterRelease(c)
    \/ \E c \in Callers, base_url \in RegBaseUrls : ClientCall(c, base_url)
    \/ \E c \in Callers : ClientCheck(c)
    \/ \E c \in Callers : ClientCreate(c)
    \/ \E c \in Callers : ClientGuard(c)
    \/ \E c \in Callers : ClientLookup(c)
    \/ \E c \in Callers : WorkerReturns(c)

SpecRegistry == RegistryInit /\ [][RegistryNext]_vars

\* the caller is between its look into the registry and the end of its insert
InSection(c) ==
    \/ worker[c].fn = "filter" /\ worker[c].pc = "locked"
    \/ worker[c].fn = "load" /\ worker[c].pc \in {"load", "store"}
    \/ worker[c].fn = "client" /\ worker[c].pc = "create"

SameKey(c, d) ==
    /\ worker[c].fn = worker[d].fn
    /\ worker[c].profile = worker[d].profile
    /\ worker[c].keywords_file = worker[d].keywords_file
    /\ worker[c].base_url = worker[d].base_url

\* the registry locks a caller holds
LocksHeld(c) == {l \in {"_filter_lock"} : _filter_lock = c}

\* C30: in each registry no two callers are between look-up and insert of
\* one key at a time, one object at most has been created for a key while
\* its files stay as they are, two callers that asked for the same key have
\* received the same object, and no caller holds two registry locks.
C30_OneEntryPerAbsentKey ==
    /\ \A c \in Callers, d \in Callers :
          (c # d /\ SameKey(c, d)) => ~(InSection(c) /\ InSection(d))
    /\ \A b1 \in built, b2 \in built :
          (b1.registry = b2.registry /\ b1.key = b2.key) => b1 = b2
    /\ \A m1 \in clientsMade, m2 \in clientsMade :
          m1.base_url = m2.base_url => m1 = m2
    /\ \A c \in Callers, d \in Callers :
          (/\ SameKey(c, d)
           /\ worker[c].pc = "returned"
           /\ worker[d].pc = "returned") => worker[c].got = worker[d].got
    /\ \A c \in Callers : Cardinality(LocksHeld(c)) <= 1


----------------------------------------------------------------------------
(* The filter cache between its callers, the shutdown handler and the      *)
(* memory guard's periodic check: basic.py get_filter and cleanup_filters, *)
(* memory_guard.py track and check_all_tracked.  The cache starts empty or *)
(* full of the paths 1..MAX_FILTERS, each asked for once.                  *)

GuardPaths == {1, MAX_FILTERS + 1}

FilledCache(n) == [i \in 1..n |-> [path |-> i, obj |-> KeywordFilter(i, NoFile)]]

GuardInit ==
    /\ StreamIdle /\ BowIdle /\ AppIdle
    /\ StoreIdle /\ TxIdle /\ DetectIdle
    /\ kwFile = NoFile
    /\ kwAside = NoFile
    /\ kwClock = 1
    /\ kwCall = NoCall
    /\ kwFresh = TRUE
    /\ \E n \in {0, MAX_FILTERS} :
          /\ _filters = FilledCache(n)
          /\ built = {[registry |-> "filters", key |-> i, obj |-> 1] : i \in 1..n}
    /\ filterCall = NoFilterCall
    /\ _filter_lock = "free"
    /\ GuardIdle
    /\ profileCache = <<>>
    /\ profileFiles = <<>>
    /\ worker = [c \in Callers |-> WorkerIdle]

GuardNext ==
    \/ \E c \in Callers, keywords_file \in GuardPaths : FilterCall(c, keywords_file)
    \/ \E c \in Callers : FilterAcquire(c)
    \/ \E c \in Callers : FilterBody(c)
    \/ \E c \in Callers : FilterRelease(c)
    \/ \E c \in Callers : CleanupCall(c)
    \/ \E c \in Callers : CleanupBody(c)
    \/ \E c \in Callers : WorkerReturns(c)
    \/ check_all_tracked

SpecGuard == GuardInit /\ [][GuardNext]_vars

\* C31: a step that takes a path out of the filter cache, or puts one in,
\* is a step of the caller that holds the filter-cache lock, taken inside
\* its with-block.
C31_RemovalsUnderTheLock ==
    [][(\/ \E i \in 1..Len(_filters) : ~HasFilter(_filters', _filters[i].path)
        \/ \E i \in 1..Len(_filters') : ~HasFilter(_filters, _filters'[i].path))
         => \E c \in Callers : /\ _filter_lock = c
                               /\ _filter_lock' = c
                               /\ worker[c].pc = "locked"
                               /\ worker'[c].pc = "release"]_vars

\* a caller that holds the lock has just pushed the earliest path out of
\* the full cache while another caller waits for the lock, the periodic
\* check having run
C31_Witness ==
    /\ guardLog.ran
    /\ Len(_filters) = MAX_FILTERS
    /\ ~HasFilter(_filters, 1)
    /\ \E c \in Callers, d \in Callers :
          /\ _filter_lock = c
          /\ worker[c].fn = "filter" /\ worker[c].pc = "release"
          /\ worker[d].pc = "acquire"

\* C35: once get_filter has created an entry the filter cache is in the
\* memory guard's registry, and a check_all_tracked that runs after a
\* get_filter call created an entry examines the cache.
C35_TrackedCacheIsExamined ==
    /\ (\E c \in Callers : /\ worker[c].fn = "filter"
                             /\ worker[c].pc \in {"release", "returned"}
                             /\ ~worker[c].reused)
          => FiltersName \in _tracked_objects
    /\ guardLog.due => FiltersName \in guardLog.examined


\* C40: a get_filter call leaves the filter of its path in the cache and
\* returns it, and a get_or_create_client call that makes a client leaves
\* it in the pool under its URL and returns it to the UpstreamClient being
\* constructed.
C40_CallsReturnTheirEntry ==
    [][/\ filterCall' # filterCall => HasFilter(_filters', filterCall'.path)
       /\ \A m \in clientsMade' \ clientsMade :
             /\ m.base_url \in DOMAIN _client_pool'
             /\ \E o \in upstreamClients' : o.client = m.client]_vars

============================================================================
